---- MODULE Spec2Model ----
(***************************************************************************)
(* A model of the frame-presentation and startup-synchronisation core of   *)
(* flutter-rs:                                                             *)
(*   flutter-sctk/src/application.rs   event loop, startup synchroniser    *)
(*   flutter-sctk/src/handler.rs       OpenGL and compositor handlers      *)
(*   flutter-glutin/src/context.rs     rendering context                   *)
(*   flutter-engine/src/channel/platform_message.rs   response handle      *)
(*                                                                         *)
(* Every handler is one action.  `handler` names the handler that ran last *)
(* and `trace` lists, in order, the calls it made on its collaborators     *)
(* (the engine, the window, the GL functions, the native context).         *)
(***************************************************************************)
EXTENDS Integers, Sequences, FiniteSets, TLC

VARIABLES
    \* ---- SctkApplicationState (application.rs) ----
    windows,            \* keys of the `windows` map (xdg toplevel ids)
    is_engine_running,  \* startup_synchronizer.is_engine_running
    pending_configure,  \* startup_synchronizer.pending_configure (Option)
    outputs,            \* the outputs OutputState knows
    loop_pc,            \* where SctkApplication::run is
    stop,               \* the LoopSignal's stop flag
    startup_timer,      \* the Timer::immediate() source of run
    timers,             \* deadlines of the installed platform-task timers
    next_serial,        \* serial the compositor gives its next configure
    \* ---- what the collaborators have seen ----
    handler,            \* the handler that ran last
    trace,              \* its calls, in order
    window_calls,       \* every window.configure call so far, in order
    received,           \* every toplevel configure event so far, in order
    engine_run_result,  \* "not_called", "ok" or "failed"
    engine_run_calls,   \* how many times engine.run() was called
    engine_displays,    \* the displays of the last notify_display_update
    \* ---- Context (context.rs), the handlers (handler.rs), the GL state ----
    render_pc,          \* "new", "ready", "panicked" or "crashed"
    debug_assertions,   \* whether debug_assert is compiled in
    context,            \* Context.context (Option)
    current,            \* whether the native context is bound
    current_on,         \* the threads the native context is current on
    surface_size,       \* the size of the window surface
    current_frame_size, \* SctkOpenGLHandler.current_frame_size
    frame_size_access,  \* how the last handler used current_frame_size (Option)
    gl_textures,        \* the live textures
    gl_framebuffers,    \* the live framebuffers
    user_data,          \* the live FlutterOpenGLBackingStoreFramebuffer boxes
    stores,             \* the backing stores the engine holds
    created,            \* how many backing stores were created
    arg,                \* the argument of the handler that ran last
    ret,                \* what it returned
    \* ---- the locks of the handlers (handler.rs), one call per thread ----
    lock_call,          \* per thread, the handler it is in ("idle" if none)
    lock_todo,          \* per thread, the lock steps the handler still makes
    lock_held,          \* per thread, the guards it holds
    \* ---- PlatformMessageResponseHandle (platform_message.rs) ----
    handle_live,        \* whether a handle object exists
    handle_ptr,         \* its `handle` field
    next_handle,        \* the pointer the native layer gives next
    registrations,      \* the handles whose boxed callback is registered
    sent,               \* the pointers handed to the native layer
    invocations,        \* the calls of the callbacks, in order
    responses           \* the answers of the native layer, in order

appVars == <<windows, is_engine_running, pending_configure, outputs, loop_pc,
             stop, startup_timer, timers, next_serial, window_calls, received,
             engine_run_result, engine_run_calls, engine_displays>>

renderVars == <<render_pc, debug_assertions, context, current, current_on,
                surface_size,
                current_frame_size, frame_size_access, gl_textures,
                gl_framebuffers, user_data, stores, created, arg, ret,
                lock_call, lock_todo, lock_held>>

lockVars == <<lock_call, lock_todo, lock_held>>

msgVars == <<handle_live, handle_ptr, next_handle, registrations, sent,
             invocations, responses>>

vars == <<appVars, renderVars, msgVars, handler, trace>>

(***************************************************************************)
(* Bounds of the model.                                                    *)
(***************************************************************************)
MaxConfigures == 3
MaxDeadline == 2
MaxStores == 2
MaxLayers == 2
MaxHandles == 3

(***************************************************************************)
(* Values.                                                                 *)
(***************************************************************************)
None == <<>>
Some(x) == <<x>>
Unwrap(opt) == opt[1]

\* The toplevel of the implicit window, and one that belongs to no flutter window.
ImplicitToplevel == 1
ForeignToplevel == 2
Toplevels == {ImplicitToplevel, ForeignToplevel}

\* WindowConfigure.new_size, in pixels.
Configures == {<<500, 400>>, <<800, 600>>}

\* The configure events of the compositor: either size for the implicit
\* window, one for a toplevel that is no flutter window.
ConfigureEvents ==
    ({ImplicitToplevel} \X Configures) \cup {<<ForeignToplevel, <<500, 400>>>>}

OutputIds == {1, 2}
Deadlines == 1..MaxDeadline

Call(name, args) == [call |-> name, args |-> args]

Last(s) == s[Len(s)]

RECURSIVE SetToSeq(_)
SetToSeq(S) ==
    IF S = {} THEN <<>>
    ELSE LET m == CHOOSE x \in S : \A y \in S : x <= y
         IN <<m>> \o SetToSeq(S \ {m})

SelectCalls(t, name) == SelectSeq(t, LAMBDA c : c.call = name)

(***************************************************************************)
(* application.rs                                                          *)
(***************************************************************************)

\* SctkApplication::new: one implicit window, a default synchroniser.
AppInit ==
    /\ windows = {ImplicitToplevel}
    /\ is_engine_running = FALSE
    /\ pending_configure = None
    /\ outputs = {}
    /\ loop_pc = "new"
    /\ stop = FALSE
    /\ startup_timer = "none"
    /\ timers = {}
    /\ next_serial = 1
    /\ window_calls = <<>>
    /\ received = <<>>
    /\ engine_run_result = "not_called"
    /\ engine_run_calls = 0
    /\ engine_displays = None

\* get_implicit_window_mut: windows.iter_mut().last()
get_implicit_window_mut ==
    IF windows = {} THEN None
    ELSE Some(CHOOSE w \in windows : \A v \in windows : v <= w)

notify_display_update_calls_unguarded(running, outs) ==
    <<Call("engine.notify_display_update", SetToSeq(outs))>>

\* The calls of notify_display_update: nothing before the engine runs.
notify_display_update_calls(running, outs) ==
    IF ~running THEN <<>>
    ELSE <<Call("engine.notify_display_update", SetToSeq(outs))>>

notify_display_update_result_unguarded(running, outs) ==
    Some(outs)

\* The displays the engine knows after notify_display_update.
notify_display_update_result(running, outs) ==
    IF ~running THEN engine_displays ELSE Some(outs)

\* The window.configure calls of maybe_send_startup_pending_configure:
\* pending_configure.take(), handed to the implicit window.
startup_pending_calls_dropped ==
    <<>>

startup_pending_calls ==
    IF pending_configure = None \/ get_implicit_window_mut = None THEN <<>>
    ELSE LET p == Unwrap(pending_configure)
         IN <<[win |-> Unwrap(get_implicit_window_mut),
               configure |-> p.configure, serial |-> p.serial]>>

WindowCall(c) ==
    Call("window.configure", <<c.win, c.configure[1], c.configure[2], c.serial>>)

RECURSIVE WindowCallsTrace(_)
WindowCallsTrace(cs) ==
    IF cs = <<>> THEN <<>>
    ELSE <<WindowCall(cs[1])>> \o WindowCallsTrace(Tail(cs))

take_pending_configure_leaves_value ==
    pending_configure

\* pending_configure.take(): what the field holds afterwards.
take_pending_configure ==
    None

maybe_send_startup_pending_configure_before_displays ==
    /\ is_engine_running' = TRUE
    /\ engine_displays' = notify_display_update_result(TRUE, outputs)
    /\ pending_configure' = take_pending_configure
    /\ window_calls' = window_calls \o startup_pending_calls
    /\ trace' = <<Call("engine.run", <<1>>)>>
                \o WindowCallsTrace(startup_pending_calls)
                \o notify_display_update_calls(TRUE, outputs)

\* maybe_send_startup_pending_configure
maybe_send_startup_pending_configure ==
    /\ is_engine_running' = TRUE
    /\ engine_displays' = notify_display_update_result(TRUE, outputs)
    /\ pending_configure' = take_pending_configure
    /\ window_calls' = window_calls \o startup_pending_calls
    /\ trace' = <<Call("engine.run", <<1>>)>>
                \o notify_display_update_calls(TRUE, outputs)
                \o WindowCallsTrace(startup_pending_calls)

engine_run_failure_ignored ==
    /\ maybe_send_startup_pending_configure
    /\ UNCHANGED loop_pc

\* A failed engine.run() panics in expect(): nothing after it runs.
engine_run_failed ==
    /\ loop_pc' = "panicked"
    /\ trace' = <<Call("engine.run", <<0>>)>>
    /\ UNCHANGED <<is_engine_running, engine_displays, pending_configure, window_calls>>

startup_timeout_action_rearms ==
    "armed"

\* TimeoutAction::Drop, what the startup callback returns: the timer source
\* is removed.
startup_timeout_action ==
    "dropped"

\* The callback of the Timer::immediate() source of SctkApplication::run.
startup_timer_fired(ok) ==
    /\ loop_pc = "dispatch"
    /\ startup_timer = "armed"
    /\ startup_timer' = startup_timeout_action
    /\ engine_run_result' = IF ok THEN "ok" ELSE "failed"
    /\ engine_run_calls' = engine_run_calls + 1
    /\ handler' = "startup_timer"
    /\ IF ok THEN maybe_send_startup_pending_configure /\ UNCHANGED loop_pc
             ELSE engine_run_failed
    /\ UNCHANGED <<renderVars, msgVars, windows, outputs, stop, timers, next_serial, received>>

\* SctkApplication::run, up to the first test of the stop signal.
run ==
    /\ loop_pc = "new"
    /\ startup_timer' = "armed"
    /\ stop' = FALSE
    /\ loop_pc' = "check"
    /\ handler' = "run"
    /\ trace' = <<>>
    /\ UNCHANGED <<renderVars, msgVars, windows, is_engine_running, pending_configure, outputs, timers,
                   next_serial, window_calls, received, engine_run_result, engine_run_calls,
                   engine_displays>>

loop_check_ignores_stop ==
    /\ loop_pc = "check"
    /\ loop_pc' = "dispatch"
    /\ UNCHANGED <<renderVars, msgVars, windows, is_engine_running, pending_configure, outputs, stop,
                   startup_timer, timers, next_serial, window_calls, received,
                   engine_run_result, engine_run_calls, engine_displays, handler, trace>>

\* event_loop.run: the stop signal is tested between two iterations.
loop_check ==
    /\ loop_pc = "check"
    /\ loop_pc' = IF stop THEN "returned" ELSE "dispatch"
    /\ UNCHANGED <<renderVars, msgVars, windows, is_engine_running, pending_configure, outputs, stop,
                   startup_timer, timers, next_serial, window_calls, received,
                   engine_run_result, engine_run_calls, engine_displays, handler, trace>>

end_dispatch_before_startup_timer ==
    /\ loop_pc = "dispatch"
    /\ loop_pc' = "callback"
    /\ UNCHANGED <<renderVars, msgVars, windows, is_engine_running, pending_configure, outputs, stop,
                   startup_timer, timers, next_serial, window_calls, received,
                   engine_run_result, engine_run_calls, engine_displays, handler, trace>>

\* The dispatch of one iteration ends; an expired timer is served in it.
end_dispatch ==
    /\ loop_pc = "dispatch"
    /\ startup_timer # "armed"
    /\ loop_pc' = "callback"
    /\ UNCHANGED <<renderVars, msgVars, windows, is_engine_running, pending_configure, outputs, stop,
                   startup_timer, timers, next_serial, window_calls, received,
                   engine_run_result, engine_run_calls, engine_displays, handler, trace>>

insert_timer_source_without_insert(timer) ==
    timers

\* insert_timer_source
insert_timer_source(timer) ==
    IF timer = None THEN timers ELSE timers \cup {Unwrap(timer)}

\* The closure event_loop.run calls after each dispatch.
loop_callback(next_task) ==
    /\ loop_pc = "callback"
    /\ next_task # None => Unwrap(next_task) \notin timers
    /\ timers' = insert_timer_source(next_task)
    /\ loop_pc' = "check"
    /\ handler' = "loop_callback"
    /\ trace' = <<Call("engine.execute_platform_tasks", next_task)>>
    /\ UNCHANGED <<renderVars, msgVars, windows, is_engine_running, pending_configure, outputs, stop,
                   startup_timer, next_serial, window_calls, received,
                   engine_run_result, engine_run_calls, engine_displays>>

\* A platform-task timer fires: |_, _, _| TimeoutAction::Drop
task_timer_fired(d) ==
    /\ loop_pc = "dispatch"
    /\ d \in timers
    /\ timers' = timers \ {d}
    /\ handler' = "task_timer"
    /\ trace' = <<>>
    /\ UNCHANGED <<renderVars, msgVars, windows, is_engine_running, pending_configure, outputs, stop,
                   startup_timer, loop_pc, next_serial, window_calls, received,
                   engine_run_result, engine_run_calls, engine_displays>>

set_pending_configure_keeps_first(cfg, serial) ==
    IF pending_configure # None THEN pending_configure
    ELSE Some([configure |-> cfg, serial |-> serial])

\* ImplicitWindowStartupSynchronizer::set_pending_configure
set_pending_configure(cfg, serial) ==
    Some([configure |-> cfg, serial |-> serial])

configure_forwards_always ==
    TRUE

configure_forwards_never ==
    FALSE

\* WindowHandler::configure, the test of line 640.
configure_forwards ==
    is_engine_running

\* WindowHandler::configure
configure(win, cfg) ==
    /\ loop_pc = "dispatch"
    /\ next_serial <= MaxConfigures
    /\ next_serial' = next_serial + 1
    /\ received' = Append(received, [win |-> win, configure |-> cfg,
                                     serial |-> next_serial,
                                     running |-> is_engine_running])
    /\ handler' = "configure"
    /\ IF win \notin windows
       THEN /\ trace' = <<>>
            /\ UNCHANGED <<pending_configure, window_calls>>
       ELSE IF configure_forwards
       THEN LET c == [win |-> win, configure |-> cfg, serial |-> next_serial]
            IN /\ window_calls' = Append(window_calls, c)
               /\ trace' = <<WindowCall(c)>>
               /\ UNCHANGED pending_configure
       ELSE /\ pending_configure' = set_pending_configure(cfg, next_serial)
            /\ trace' = <<>>
            /\ UNCHANGED window_calls
    /\ UNCHANGED <<renderVars, msgVars, windows, is_engine_running, outputs, loop_pc, stop,
                   startup_timer, timers, engine_run_result, engine_run_calls, engine_displays>>

\* WindowHandler::request_close
request_close ==
    /\ loop_pc = "dispatch"
    /\ stop' = TRUE
    /\ handler' = "request_close"
    /\ trace' = <<>>
    /\ UNCHANGED <<renderVars, msgVars, windows, is_engine_running, pending_configure, outputs, loop_pc,
                   startup_timer, timers, next_serial, window_calls, received,
                   engine_run_result, engine_run_calls, engine_displays>>

\* What the three OutputHandler callbacks share: notify_display_update.
output_changed(name, new_outputs) ==
    /\ loop_pc = "dispatch"
    /\ outputs' = new_outputs
    /\ handler' = name
    /\ trace' = notify_display_update_calls(is_engine_running, new_outputs)
    /\ engine_displays' = notify_display_update_result(is_engine_running, new_outputs)
    /\ UNCHANGED <<renderVars, msgVars, windows, is_engine_running, pending_configure, loop_pc, stop,
                   startup_timer, timers, next_serial, window_calls, received,
                   engine_run_result, engine_run_calls>>

\* OutputHandler::new_output
new_output(o) ==
    /\ o \notin outputs
    /\ output_changed("new_output", outputs \cup {o})

\* OutputHandler::update_output
update_output(o) ==
    /\ o \in outputs
    /\ output_changed("update_output", outputs)

\* OutputHandler::output_destroyed.  The handler reads the outputs of
\* OutputState, which the toolkit has already taken the output from
\* (removed_first) or takes it from once the handler has returned.
output_destroyed(o, removed_first) ==
    LET read == IF removed_first THEN outputs \ {o} ELSE outputs
    IN /\ o \in outputs
       /\ loop_pc = "dispatch"
       /\ outputs' = outputs \ {o}
       /\ handler' = "output_destroyed"
       /\ trace' = notify_display_update_calls(is_engine_running, read)
       /\ engine_displays' = notify_display_update_result(is_engine_running, read)
       /\ UNCHANGED <<renderVars, msgVars, windows, is_engine_running,
                      pending_configure, loop_pc, stop, startup_timer, timers,
                      next_serial, window_calls, received, engine_run_result,
                      engine_run_calls>>

AppNext ==
    \/ run
    \/ loop_check
    \/ end_dispatch
    \/ \E ok \in BOOLEAN : startup_timer_fired(ok)
    \/ \E t \in {None} \cup {Some(d) : d \in Deadlines} : loop_callback(t)
    \/ \E d \in Deadlines : task_timer_fired(d)
    \/ \E e \in ConfigureEvents : configure(e[1], e[2])
    \/ request_close
    \/ \E o \in OutputIds : new_output(o)
    \/ \E o \in OutputIds : update_output(o)
    \/ \E o \in OutputIds, r \in BOOLEAN : output_destroyed(o, r)

(***************************************************************************)
(* context.rs: Context                                                     *)
(*                                                                         *)
(* An operation is given the handle (`context`), whether the native        *)
(* context is bound (`current`) and the outcome of its native call, and    *)
(* yields its return value, the two afterwards, and its calls.             *)
(***************************************************************************)
B(b) == IF b THEN 1 ELSE 0

TheContext == Some("PossiblyCurrentContext")

Context_make_current_without_handle(ctx, cur, bind_ok) ==
    [ret |-> bind_ok, context |-> ctx,
     current |-> IF bind_ok THEN TRUE ELSE cur,
     trace |-> <<Call("native.make_current", <<B(bind_ok)>>),
                 Call("Context::make_current", <<B(bind_ok)>>)>>]

\* Context::make_current
Context_make_current(ctx, cur, bind_ok) ==
    IF ctx = None
    THEN [ret |-> FALSE, context |-> ctx, current |-> cur,
          trace |-> <<Call("Context::make_current", <<0>>)>>]
    ELSE [ret |-> bind_ok, context |-> ctx,
          current |-> IF bind_ok THEN TRUE ELSE cur,
          trace |-> <<Call("native.make_current", <<B(bind_ok)>>),
                      Call("Context::make_current", <<B(bind_ok)>>)>>]

Context_make_not_current_handle_lost(ctx, cur, release_ok) ==
    IF ctx = None
    THEN [ret |-> FALSE, context |-> None, current |-> cur,
          trace |-> <<Call("Context::make_not_current", <<0>>)>>]
    ELSE [ret |-> release_ok, context |-> None,
          current |-> IF release_ok THEN FALSE ELSE cur,
          trace |-> <<Call("native.make_not_current", <<B(release_ok)>>),
                      Call("Context::make_not_current", <<B(release_ok)>>)>>]

Context_make_not_current_recovering_handle(ctx, cur, release_ok) ==
    IF ctx = None
    THEN [ret |-> FALSE, context |-> TheContext, current |-> cur,
          trace |-> <<Call("Context::make_not_current", <<0>>)>>]
    ELSE [ret |-> release_ok,
          context |-> IF release_ok THEN ctx ELSE None,
          current |-> IF release_ok THEN FALSE ELSE cur,
          trace |-> <<Call("native.make_not_current", <<B(release_ok)>>),
                      Call("Context::make_not_current", <<B(release_ok)>>)>>]

Context_make_not_current_keeps_handle(ctx, cur, release_ok) ==
    IF ctx = None
    THEN [ret |-> FALSE, context |-> None, current |-> cur,
          trace |-> <<Call("Context::make_not_current", <<0>>)>>]
    ELSE [ret |-> release_ok, context |-> ctx,
          current |-> IF release_ok THEN FALSE ELSE cur,
          trace |-> <<Call("native.make_not_current", <<B(release_ok)>>),
                      Call("Context::make_not_current", <<B(release_ok)>>)>>]

\* Context::make_not_current: the handle is taken, and put back only when the
\* native release succeeds.
Context_make_not_current(ctx, cur, release_ok) ==
    IF ctx = None
    THEN [ret |-> FALSE, context |-> None, current |-> cur,
          trace |-> <<Call("Context::make_not_current", <<0>>)>>]
    ELSE [ret |-> release_ok,
          context |-> IF release_ok THEN ctx ELSE None,
          current |-> IF release_ok THEN FALSE ELSE cur,
          trace |-> <<Call("native.make_not_current", <<B(release_ok)>>),
                      Call("Context::make_not_current", <<B(release_ok)>>)>>]

Context_present_without_handle(ctx, cur, swap_ok) ==
    [ret |-> swap_ok, context |-> ctx, current |-> cur,
     trace |-> <<Call("native.swap_buffers", <<B(swap_ok)>>),
                 Call("Context::present", <<B(swap_ok)>>)>>]

\* Context::present
Context_present(ctx, cur, swap_ok) ==
    IF ctx = None
    THEN [ret |-> FALSE, context |-> ctx, current |-> cur,
          trace |-> <<Call("Context::present", <<0>>)>>]
    ELSE [ret |-> swap_ok, context |-> ctx, current |-> cur,
          trace |-> <<Call("native.swap_buffers", <<B(swap_ok)>>),
                      Call("Context::present", <<B(swap_ok)>>)>>]

Context_resize_without_handle(ctx, size, old_size) ==
    [surface_size |-> size, trace |-> <<Call("native.surface_resize", size)>>]

\* Context::resize: the size the surface has afterwards, and the calls.
Context_resize(ctx, size, old_size) ==
    IF ctx = None
    THEN [surface_size |-> old_size, trace |-> <<>>]
    ELSE [surface_size |-> size,
          trace |-> <<Call("native.surface_resize", size)>>]

(***************************************************************************)
(* handler.rs: SctkOpenGLHandler and SctkCompositorHandler                 *)
(***************************************************************************)
WINDOW_FRAMEBUFFER_ID == 0

\* The OpenGL enums the handlers pass.
GL_SCISSOR_TEST == 3089
GL_READ_FRAMEBUFFER == 36008
GL_DRAW_FRAMEBUFFER == 36009
GL_FRAMEBUFFER == 36160
GL_TEXTURE_2D == 3553
GL_TEXTURE_MIN_FILTER == 10241
GL_TEXTURE_MAG_FILTER == 10240
GL_TEXTURE_WRAP_S == 10242
GL_TEXTURE_WRAP_T == 10243
GL_NEAREST == 9728
GL_CLAMP_TO_EDGE == 33071
GL_RGBA8 == 32856
GL_RGBA == 6408
GL_UNSIGNED_BYTE == 5121
GL_COLOR_ATTACHMENT0 == 36064
GL_COLOR_BUFFER_BIT == 16384
GL_DEPTH_BUFFER_BIT == 256
GL_STENCIL_BUFFER_BIT == 1024

\* PhysicalSize<u32> values of frames and surfaces.
FrameSizes == {<<500, 400>>, <<800, 600>>}

\* FlutterSize values (f64 width and height) are held in tenths of a pixel.
\* The engine asks for backing stores of these sizes.
StoreSizes == {<<4995, 3004>>, <<8005, 5996>>}

round_truncating(tenths) == tenths \div 10

\* f64::round, half away from zero, of a size in tenths that is not negative.
round(tenths) == (tenths + 5) \div 10

\* The names GenTextures and GenFramebuffers give the k-th backing store.
TextureName(k) == 10 + k
FramebufferName(k) == 20 + k

\* The two threads that use the Context of a window: SctkOpenGLHandler::resize
\* and the construction of the handlers run on the platform thread, the
\* callbacks of the engine on the render thread.
PlatformThread == "platform"
RenderThread == "render"

\* The threads the native context is current on after the calls of t were made
\* on `thread`: a bind that succeeds makes it current on the calling thread, a
\* release that succeeds ends that.
RECURSIVE current_on_after(_, _, _)
current_on_after(threads, thread, t) ==
    IF t = <<>> THEN threads
    ELSE current_on_after(
             IF t[1] = Call("native.make_current", <<1>>)
             THEN threads \cup {thread}
             ELSE IF t[1] = Call("native.make_not_current", <<1>>)
             THEN threads \ {thread}
             ELSE threads,
             thread, Tail(t))

\* An access to current_frame_size: the thread that makes it, whether it reads
\* or writes, and the guard of the RwLock it holds meanwhile.
write_frame_size_unlocked ==
    Some([thread |-> RenderThread, mode |-> "write", lock |-> "none"])

\* `self.current_frame_size.write().unwrap()` of fbo_with_frame_info_callback.
write_frame_size ==
    Some([thread |-> RenderThread, mode |-> "write", lock |-> "write"])

\* `self.current_frame_size.read().unwrap()` of load_current_frame_size, which
\* present calls.
read_frame_size ==
    Some([thread |-> RenderThread, mode |-> "read", lock |-> "read"])

RenderInit ==
    /\ render_pc = "new"
    /\ debug_assertions = FALSE
    /\ context = TheContext
    /\ current = FALSE
    /\ current_on = {}
    /\ surface_size = <<0, 0>>
    /\ current_frame_size = <<0, 0>>
    /\ frame_size_access = None
    /\ gl_textures = {}
    /\ gl_framebuffers = {}
    /\ user_data = {}
    /\ stores = {}
    /\ created = 0
    /\ arg = <<>>
    /\ ret = "none"
    /\ lock_call = [t \in {PlatformThread, RenderThread} |-> "idle"]
    /\ lock_todo = [t \in {PlatformThread, RenderThread} |-> <<>>]
    /\ lock_held = [t \in {PlatformThread, RenderThread} |-> {}]

\* A GL call made while no context is bound does nothing here, or ends the
\* process (gl_crash); a handler that has started always records its calls.
RenderReady == render_pc = "ready"

\* SctkCompositorHandler::new: make_current, load the GL functions,
\* make_not_current.  The build (debug or release) is fixed from here on.
SctkCompositorHandler_new(bind_ok, release_ok, debug) ==
    LET a == Context_make_current(context, current, bind_ok)
        b == Context_make_not_current(a.context, a.current, release_ok)
    IN /\ render_pc = "new"
       /\ render_pc' = "ready"
       /\ debug_assertions' = debug
       /\ context' = b.context
       /\ current' = b.current
       /\ handler' = "SctkCompositorHandler::new"
       /\ UNCHANGED <<appVars, msgVars>>
       /\ arg' = <<>>
       /\ ret' = "Self"
       /\ trace' = a.trace \o b.trace
       /\ UNCHANGED <<surface_size, current_frame_size, gl_textures,
                      gl_framebuffers, user_data, stores, created>>
       /\ current_on' = current_on_after(current_on, PlatformThread, trace')
       /\ frame_size_access' = None
       /\ UNCHANGED lockVars

\* FlutterOpenGLHandler::make_current
make_current(bind_ok) ==
    LET a == Context_make_current(context, current, bind_ok)
    IN /\ RenderReady
       /\ context' = a.context
       /\ current' = a.current
       /\ handler' = "make_current"
       /\ UNCHANGED <<appVars, msgVars>>
       /\ arg' = <<>>
       /\ ret' = IF a.ret THEN "true" ELSE "false"
       /\ trace' = a.trace
       /\ UNCHANGED <<render_pc, debug_assertions, surface_size,
                      current_frame_size, gl_textures, gl_framebuffers,
                      user_data, stores, created>>
       /\ current_on' = current_on_after(current_on, RenderThread, trace')
       /\ frame_size_access' = None
       /\ UNCHANGED lockVars

\* FlutterOpenGLHandler::clear_current
clear_current(release_ok) ==
    LET a == Context_make_not_current(context, current, release_ok)
    IN /\ RenderReady
       /\ context' = a.context
       /\ current' = a.current
       /\ handler' = "clear_current"
       /\ UNCHANGED <<appVars, msgVars>>
       /\ arg' = <<>>
       /\ ret' = IF a.ret THEN "true" ELSE "false"
       /\ trace' = a.trace
       /\ UNCHANGED <<render_pc, debug_assertions, surface_size,
                      current_frame_size, gl_textures, gl_framebuffers,
                      user_data, stores, created>>
       /\ current_on' = current_on_after(current_on, RenderThread, trace')
       /\ frame_size_access' = None
       /\ UNCHANGED lockVars

\* SctkOpenGLHandler::resize
resize(size) ==
    LET a == Context_resize(context, size, surface_size)
    IN /\ RenderReady
       /\ surface_size' = a.surface_size
       /\ handler' = "resize"
       /\ UNCHANGED <<appVars, msgVars>>
       /\ arg' = size
       /\ ret' = "unit"
       /\ trace' = a.trace
       /\ UNCHANGED <<render_pc, debug_assertions, context, current,
                      current_frame_size, gl_textures, gl_framebuffers,
                      user_data, stores, created>>
       /\ current_on' = current_on_after(current_on, PlatformThread, trace')
       /\ frame_size_access' = None
       /\ UNCHANGED lockVars

\* FlutterOpenGLHandler::fbo_with_frame_info_callback
fbo_with_frame_info_callback(size) ==
    /\ RenderReady
    /\ current_frame_size' = size
    /\ handler' = "fbo_with_frame_info_callback"
    /\ UNCHANGED <<appVars, msgVars>>
    /\ arg' = size
    /\ ret' = "0"
    /\ trace' = <<>>
    /\ UNCHANGED <<render_pc, debug_assertions, context, current, surface_size,
                   gl_textures, gl_framebuffers, user_data, stores, created>>
    /\ current_on' = current_on_after(current_on, RenderThread, trace')
    /\ frame_size_access' = write_frame_size
    /\ UNCHANGED lockVars

frame_rejection_ignored(accepted) == FALSE

\* `if !window.on_frame_generated(..) { return .. }`, and the same test of
\* on_empty_frame_generated: the window has rejected the frame.
frame_rejected(accepted) == ~accepted

make_current_failure_ignored(bound) == FALSE

\* `if !context.make_current() { return .. }` of clear and present_view.
make_current_failed(bound) == ~bound

load_current_frame_size_of_surface ==
    surface_size

\* SctkOpenGLHandler::load_current_frame_size
load_current_frame_size ==
    current_frame_size

present_calls_retrying_swap(frame_ok, swap_ok) ==
    LET asked == <<Call("window.on_frame_generated",
                        load_current_frame_size \o <<B(frame_ok)>>)>>
        p == Context_present(context, current, swap_ok)
    IN IF frame_rejected(frame_ok) THEN [ret |-> FALSE, trace |-> asked]
       ELSE IF ~p.ret THEN [ret |-> FALSE, trace |-> asked \o p.trace \o p.trace]
       ELSE [ret |-> TRUE,
             trace |-> asked \o p.trace \o <<Call("window.on_frame_presented", <<>>)>>]

\* The calls of a present: ask the window, swap, tell the window.
\* FlutterOpenGLHandler::present
present_calls(frame_ok, swap_ok) ==
    LET asked == <<Call("window.on_frame_generated",
                        load_current_frame_size \o <<B(frame_ok)>>)>>
        p == Context_present(context, current, swap_ok)
    IN IF frame_rejected(frame_ok) THEN [ret |-> FALSE, trace |-> asked]
       ELSE IF ~p.ret THEN [ret |-> FALSE, trace |-> asked \o p.trace]
       ELSE [ret |-> TRUE,
             trace |-> asked \o p.trace \o <<Call("window.on_frame_presented", <<>>)>>]

present(frame_ok, swap_ok) ==
    LET r == present_calls(frame_ok, swap_ok)
    IN /\ RenderReady
       /\ handler' = "present"
       /\ UNCHANGED <<appVars, msgVars>>
       /\ arg' = <<>>
       /\ ret' = IF r.ret THEN "true" ELSE "false"
       /\ trace' = r.trace
       /\ UNCHANGED <<render_pc, debug_assertions, context, current, surface_size,
                      current_frame_size, gl_textures, gl_framebuffers,
                      user_data, stores, created>>
       /\ current_on' = current_on_after(current_on, RenderThread, trace')
       /\ frame_size_access' = read_frame_size
       /\ UNCHANGED lockVars

clear_gl_opaque_black ==
    <<Call("gl.ClearColor", <<0, 0, 0, 1>>),
      Call("gl.Clear", <<GL_COLOR_BUFFER_BIT + GL_DEPTH_BUFFER_BIT
                           + GL_STENCIL_BUFFER_BIT>>)>>

\* The GL calls of SctkCompositorHandler::clear.
clear_gl ==
    <<Call("gl.ClearColor", <<0, 0, 0, 0>>),
      Call("gl.Clear", <<GL_COLOR_BUFFER_BIT + GL_DEPTH_BUFFER_BIT
                           + GL_STENCIL_BUFFER_BIT>>)>>

clear_calls_presented_on_failed_swap(empty_ok, bind_ok, swap_ok) ==
    LET asked == <<Call("window.on_empty_frame_generated", <<B(empty_ok)>>)>>
        m == Context_make_current(context, current, bind_ok)
        gl == clear_gl
        p == Context_present(m.context, m.current, swap_ok)
    IN IF frame_rejected(empty_ok)
       THEN [ret |-> "PresentFailed", current |-> current, trace |-> asked]
       ELSE IF make_current_failed(m.ret)
       THEN [ret |-> "PresentFailed", current |-> m.current,
             trace |-> asked \o m.trace]
       ELSE [ret |-> IF p.ret THEN "Ok" ELSE "PresentFailed", current |-> p.current,
             trace |-> asked \o m.trace \o gl \o p.trace
                       \o <<Call("window.on_frame_presented", <<>>)>>]

\* What SctkCompositorHandler::clear does: its result, whether the context is
\* bound afterwards, and its calls.
clear_calls(empty_ok, bind_ok, swap_ok) ==
    LET asked == <<Call("window.on_empty_frame_generated", <<B(empty_ok)>>)>>
        m == Context_make_current(context, current, bind_ok)
        gl == clear_gl
        p == Context_present(m.context, m.current, swap_ok)
    IN IF frame_rejected(empty_ok)
       THEN [ret |-> "PresentFailed", current |-> current, trace |-> asked]
       ELSE IF make_current_failed(m.ret)
       THEN [ret |-> "PresentFailed", current |-> m.current,
             trace |-> asked \o m.trace]
       ELSE IF ~p.ret
       THEN [ret |-> "PresentFailed", current |-> p.current,
             trace |-> asked \o m.trace \o gl \o p.trace]
       ELSE [ret |-> "Ok", current |-> p.current,
             trace |-> asked \o m.trace \o gl \o p.trace
                       \o <<Call("window.on_frame_presented", <<>>)>>]

\* layer.size rounded, as present_view passes it to the window and to the blit.
layer_frame_size(layer) == <<round(layer.size[1]), round(layer.size[2])>>

present_view_gl_scissor_last(source_id, width, height) ==
    <<Call("gl.BindFramebuffer", <<GL_READ_FRAMEBUFFER, source_id>>),
      Call("gl.BindFramebuffer", <<GL_DRAW_FRAMEBUFFER, WINDOW_FRAMEBUFFER_ID>>),
      Call("gl.BlitFramebuffer", <<0, 0, width, height, 0, 0, width, height,
                                   GL_COLOR_BUFFER_BIT, GL_NEAREST>>),
      Call("gl.Disable", <<GL_SCISSOR_TEST>>)>>

\* The GL calls of present_view for one layer.
present_view_gl(source_id, width, height) ==
    <<Call("gl.Disable", <<GL_SCISSOR_TEST>>),
      Call("gl.BindFramebuffer", <<GL_READ_FRAMEBUFFER, source_id>>),
      Call("gl.BindFramebuffer", <<GL_DRAW_FRAMEBUFFER, WINDOW_FRAMEBUFFER_ID>>),
      Call("gl.BlitFramebuffer", <<0, 0, width, height, 0, 0, width, height,
                                   GL_COLOR_BUFFER_BIT, GL_NEAREST>>)>>

\* The two debug_assert of present_view; a release build has neither.
present_view_asserts_hold(layers) ==
    \/ ~debug_assertions
    \/ /\ Len(layers) = 1
       /\ layers[1].offset = <<0, 0>>

\* What FlutterCompositorHandler::present_view does with at least one layer.
present_layers_calls(layers, frame_ok, bind_ok, swap_ok) ==
    LET layer == layers[1]
        frame_size == layer_frame_size(layer)
        asked == <<Call("window.on_frame_generated", frame_size \o <<B(frame_ok)>>)>>
        m == Context_make_current(context, current, bind_ok)
        gl == present_view_gl(layer.name, frame_size[1], frame_size[2])
        p == Context_present(m.context, m.current, swap_ok)
    IN IF ~present_view_asserts_hold(layers)
       THEN [ret |-> "panic", current |-> current, trace |-> <<>>]
       ELSE IF layer.content # "backing_store"
       THEN [ret |-> "PresentFailed", current |-> current, trace |-> <<>>]
       ELSE IF frame_rejected(frame_ok)
       THEN [ret |-> "PresentFailed", current |-> current, trace |-> asked]
       ELSE IF make_current_failed(m.ret)
       THEN [ret |-> "PresentFailed", current |-> m.current,
             trace |-> asked \o m.trace]
       ELSE IF ~p.ret
       THEN [ret |-> "PresentFailed", current |-> p.current,
             trace |-> asked \o m.trace \o gl \o p.trace]
       ELSE [ret |-> "Ok", current |-> p.current,
             trace |-> asked \o m.trace \o gl \o p.trace
                       \o <<Call("window.on_frame_presented", <<>>)>>]

\* FlutterCompositorHandler::present_view: no layers is an empty frame.
present_view_calls(layers, frame_ok, bind_ok, swap_ok) ==
    IF layers = <<>> THEN clear_calls(frame_ok, bind_ok, swap_ok)
    ELSE present_layers_calls(layers, frame_ok, bind_ok, swap_ok)

present_view(layers, frame_ok, bind_ok, swap_ok) ==
    LET r == present_view_calls(layers, frame_ok, bind_ok, swap_ok)
    IN /\ RenderReady
       /\ handler' = "present_view"
       /\ UNCHANGED <<appVars, msgVars>>
       /\ arg' = layers
       /\ ret' = r.ret
       /\ trace' = r.trace
       /\ current' = r.current
       /\ render_pc' = IF r.ret = "panic" THEN "panicked" ELSE render_pc
       /\ UNCHANGED <<debug_assertions, context, surface_size, current_frame_size,
                      gl_textures, gl_framebuffers, user_data, stores, created>>
       /\ current_on' = current_on_after(current_on, RenderThread, trace')
       /\ frame_size_access' = None
       /\ UNCHANGED lockVars

\* The size TexImage2D is given for a backing store of config.size.
texture_size(size) == <<round(size[1]), round(size[2])>>

\* The GL calls of create_backing_store.
create_backing_store_gl(texture_id, framebuffer_id, size) ==
    <<Call("gl.GenTextures", <<1, texture_id>>),
      Call("gl.GenFramebuffers", <<1, framebuffer_id>>),
      Call("gl.BindFramebuffer", <<GL_FRAMEBUFFER, framebuffer_id>>),
      Call("gl.BindTexture", <<GL_TEXTURE_2D, texture_id>>),
      Call("gl.TexParameteri", <<GL_TEXTURE_2D, GL_TEXTURE_MIN_FILTER, GL_NEAREST>>),
      Call("gl.TexParameteri", <<GL_TEXTURE_2D, GL_TEXTURE_MAG_FILTER, GL_NEAREST>>),
      Call("gl.TexParameteri", <<GL_TEXTURE_2D, GL_TEXTURE_WRAP_S, GL_CLAMP_TO_EDGE>>),
      Call("gl.TexParameteri", <<GL_TEXTURE_2D, GL_TEXTURE_WRAP_T, GL_CLAMP_TO_EDGE>>),
      Call("gl.TexImage2D", <<GL_TEXTURE_2D, 0, GL_RGBA8, texture_size(size)[1],
                              texture_size(size)[2], 0, GL_RGBA, GL_UNSIGNED_BYTE>>),
      Call("gl.BindTexture", <<GL_TEXTURE_2D, 0>>),
      Call("gl.FramebufferTexture2D", <<GL_FRAMEBUFFER, GL_COLOR_ATTACHMENT0,
                                        GL_TEXTURE_2D, texture_id, 0>>)>>

\* FlutterCompositorHandler::create_backing_store.  With the context bound the
\* names are fresh; without, the GL calls give nothing (the names stay 0) or
\* end the process.
create_backing_store(size, unbound_gl) ==
    LET k == created + 1
        texture_id == IF current THEN TextureName(k) ELSE 0
        framebuffer_id == IF current THEN FramebufferName(k) ELSE 0
        store == [k |-> k, texture_id |-> texture_id,
                  framebuffer_id |-> framebuffer_id, size |-> size]
    IN /\ RenderReady
       /\ created < MaxStores
       /\ handler' = "create_backing_store"
       /\ UNCHANGED <<appVars, msgVars>>
       /\ arg' = size
       /\ IF ~current /\ unbound_gl = "crash"
          THEN /\ render_pc' = "crashed"
               /\ ret' = "crash"
               /\ trace' = <<Call("gl.GenTextures", <<1, 0>>)>>
               /\ UNCHANGED <<gl_textures, gl_framebuffers, user_data, stores,
                              created>>
          ELSE /\ ret' = "Ok"
               /\ trace' = create_backing_store_gl(texture_id, framebuffer_id, size)
               /\ created' = k
               /\ stores' = stores \cup {store}
               /\ user_data' = user_data \cup {k}
               /\ gl_textures' =
                    IF current
                    THEN gl_textures \cup {[id |-> texture_id,
                                            size |-> texture_size(size)]}
                    ELSE gl_textures
               /\ gl_framebuffers' =
                    IF current
                    THEN gl_framebuffers \cup {[id |-> framebuffer_id,
                                                color0 |-> texture_id]}
                    ELSE gl_framebuffers
               /\ UNCHANGED render_pc
       /\ UNCHANGED <<debug_assertions, context, current, surface_size,
                      current_frame_size>>
       /\ current_on' = current_on_after(current_on, RenderThread, trace')
       /\ frame_size_access' = None
       /\ UNCHANGED lockVars

\* The FlutterBackingStore of a store the engine holds, and two that this
\* compositor never gave out.
OpenGLFramebufferStore(s) ==
    [description |-> "OpenGL", variant |-> "Framebuffer", k |-> s.k,
     texture_id |-> s.texture_id, framebuffer_id |-> s.framebuffer_id]
OpenGLTextureStore ==
    [description |-> "OpenGL", variant |-> "Texture", k |-> 0,
     texture_id |-> 0, framebuffer_id |-> 0]
SoftwareStore ==
    [description |-> "Software", variant |-> "none", k |-> 0,
     texture_id |-> 0, framebuffer_id |-> 0]

collect_backing_store_accepts_any(backing_store) ==
    TRUE

\* The two let-else of collect_backing_store.
collect_backing_store_accepts(backing_store) ==
    /\ backing_store.description = "OpenGL"
    /\ backing_store.variant = "Framebuffer"

collect_backing_store_calls_texture_first(backing_store) ==
    <<Call("gl.DeleteTextures", <<1, backing_store.texture_id>>),
      Call("gl.DeleteFramebuffers", <<1, backing_store.framebuffer_id>>),
      Call("framebuffer.drop_raw_user_data", <<backing_store.k>>)>>

\* The calls of collect_backing_store on a store it accepts.
collect_backing_store_calls(backing_store) ==
    <<Call("gl.DeleteFramebuffers", <<1, backing_store.framebuffer_id>>),
      Call("gl.DeleteTextures", <<1, backing_store.texture_id>>),
      Call("framebuffer.drop_raw_user_data", <<backing_store.k>>)>>

\* FlutterCompositorHandler::collect_backing_store
collect_backing_store(backing_store, unbound_gl) ==
    /\ RenderReady
    /\ handler' = "collect_backing_store"
    /\ UNCHANGED <<appVars, msgVars>>
    /\ arg' = backing_store
    /\ IF ~collect_backing_store_accepts(backing_store)
       THEN /\ ret' = "CollectFailed"
            /\ trace' = <<>>
            /\ UNCHANGED <<render_pc, gl_textures, gl_framebuffers, user_data,
                           stores>>
       ELSE IF ~current /\ unbound_gl = "crash"
       THEN /\ render_pc' = "crashed"
            /\ ret' = "crash"
            /\ trace' = <<collect_backing_store_calls(backing_store)[1]>>
            /\ UNCHANGED <<gl_textures, gl_framebuffers, user_data, stores>>
       ELSE /\ ret' = "Ok"
            /\ trace' = collect_backing_store_calls(backing_store)
            /\ gl_framebuffers' =
                 IF current
                 THEN {f \in gl_framebuffers : f.id # backing_store.framebuffer_id}
                 ELSE gl_framebuffers
            /\ gl_textures' =
                 IF current
                 THEN {t \in gl_textures : t.id # backing_store.texture_id}
                 ELSE gl_textures
            /\ user_data' = user_data \ {backing_store.k}
            /\ stores' = {s \in stores : s.k # backing_store.k}
            /\ UNCHANGED render_pc
    /\ UNCHANGED <<debug_assertions, context, current, surface_size,
                   current_frame_size, created>>
    /\ current_on' = current_on_after(current_on, RenderThread, trace')
    /\ frame_size_access' = None
    /\ UNCHANGED lockVars

\* The layers the engine may present: the stores it holds, at their size, and a
\* platform view.
Offsets == {<<0, 0>>, <<10, 0>>}

StoreLayers ==
    {[content |-> "backing_store", name |-> s.framebuffer_id, store |-> s.k,
      size |-> s.size, offset |-> o] : s \in stores, o \in Offsets}

PlatformViewLayers ==
    {[content |-> "platform_view", name |-> 0, store |-> 0,
      size |-> <<5000, 4000>>, offset |-> <<0, 0>>]}

Layers == StoreLayers \cup PlatformViewLayers

\* The layer lists the engine may present.  present_view reads the number of
\* layers and the first layer only: the lists of more than one layer start with
\* a backing store at offset zero, and go on with platform views.
LayerLists ==
    {<<>>} \cup {<<l>> : l \in Layers} \cup
    {<<l>> \o [i \in 1..n |-> CHOOSE v \in PlatformViewLayers : TRUE] :
        l \in {x \in StoreLayers : x.offset = <<0, 0>>}, n \in 1..(MaxLayers - 1)}

UnboundGl == {"noop", "crash"}

\* The outcomes of the window's answer, the native bind and the native swap of
\* one present: a call returns at its first failure, so at most one fails.
PresentOutcomes ==
    {<<TRUE, TRUE, TRUE>>, <<FALSE, TRUE, TRUE>>, <<TRUE, FALSE, TRUE>>,
     <<TRUE, TRUE, FALSE>>}

\* The engine's calls on the FlutterOpenGLHandler of a window, and the
\* platform thread's resize.
ContextNext ==
    \/ \E b, r, d \in BOOLEAN : SctkCompositorHandler_new(b, r, d)
    \/ \E b \in BOOLEAN : make_current(b)
    \/ \E r \in BOOLEAN : clear_current(r)
    \/ \E s \in FrameSizes : resize(s)
    \/ \E s \in FrameSizes : fbo_with_frame_info_callback(s)
    \/ \E f, s \in BOOLEAN : present(f, s)

\* The engine's calls on the FlutterCompositorHandler of a window, between its
\* make_current and clear_current.
CompositorNext ==
    \/ \E b, r, d \in BOOLEAN : SctkCompositorHandler_new(b, r, d)
    \/ \E b \in BOOLEAN : make_current(b)
    \/ \E r \in BOOLEAN : clear_current(r)
    \/ \E s \in FrameSizes : resize(s)
    \/ \E f, s \in BOOLEAN : present(f, s)
    \/ \E l \in LayerLists, o \in PresentOutcomes :
           present_view(l, o[1], o[2], o[3])
    \/ \E s \in StoreSizes, u \in UnboundGl : create_backing_store(s, u)
    \/ \E s \in stores, u \in UnboundGl :
           collect_backing_store(OpenGLFramebufferStore(s), u)
    \/ \E bs \in {OpenGLTextureStore, SoftwareStore}, u \in UnboundGl :
           collect_backing_store(bs, u)

(***************************************************************************)
(* handler.rs: the locks the handlers take                                 *)
(*                                                                         *)
(* The handlers share the Context behind a Mutex, the ResourceContext      *)
(* behind a Mutex and the current frame size behind a RwLock.  Here a      *)
(* handler is the list of the lock steps it makes, one thread makes one    *)
(* step at a time, and a step that needs a lock waits until it is free.    *)
(***************************************************************************)
Threads == {PlatformThread, RenderThread}

ContextMutex == "context"
ResourceContextMutex == "resource_context"
FrameSizeLock == "current_frame_size"

Acquire(lock, mode) == [op |-> "acquire", lock |-> lock, mode |-> mode]
Release(lock) == [op |-> "release", lock |-> lock, mode |-> "none"]

\* `self.context.lock().unwrap().f()`: the guard is a temporary of the
\* statement (or of the condition of the `if`), dropped when f has returned.
Locked(lock, mode) == <<Acquire(lock, mode), Release(lock)>>

present_lock_steps_guard_kept ==
    {<<Acquire(FrameSizeLock, "read"), Release(FrameSizeLock)>>,
     <<Acquire(FrameSizeLock, "read"), Acquire(ContextMutex, "exclusive"),
       Release(ContextMutex), Release(FrameSizeLock)>>}

\* FlutterOpenGLHandler::present: the frame size is read, and unless the
\* window rejects the frame the context is locked for the swap.
present_lock_steps ==
    {Locked(FrameSizeLock, "read"),
     Locked(FrameSizeLock, "read") \o Locked(ContextMutex, "exclusive")}

\* clear and present_view with layers: nothing when the window rejects the
\* frame, else the context is locked for make_current and, when that
\* succeeded, again for present.
present_view_lock_steps ==
    {<<>>,
     Locked(ContextMutex, "exclusive"),
     Locked(ContextMutex, "exclusive") \o Locked(ContextMutex, "exclusive")}

\* The handlers of the render thread and the lock steps they make.
RenderThreadCalls ==
    ({"present"} \X present_lock_steps)
    \cup ({"present_view"} \X present_view_lock_steps)
    \cup ({"make_current", "clear_current", "gl_proc_resolver"}
              \X {Locked(ContextMutex, "exclusive")})
    \cup {<<"fbo_with_frame_info_callback", Locked(FrameSizeLock, "write")>>}
    \cup {<<"make_resource_current", Locked(ResourceContextMutex, "exclusive")>>}
    \cup ({"create_backing_store", "collect_backing_store"} \X {<<>>})

\* SctkOpenGLHandler::resize, the handler of the platform thread.
PlatformThreadCalls ==
    {<<"resize", Locked(ContextMutex, "exclusive")>>}

CallsOf(thread) ==
    IF thread = RenderThread THEN RenderThreadCalls ELSE PlatformThreadCalls

\* A thread enters a handler.
lock_begin(thread, call) ==
    /\ lock_call[thread] = "idle"
    /\ call \in CallsOf(thread)
    /\ lock_call' = [lock_call EXCEPT ![thread] = call[1]]
    /\ lock_todo' = [lock_todo EXCEPT ![thread] = call[2]]
    /\ UNCHANGED <<lock_held, appVars, msgVars, handler, trace>>
    /\ UNCHANGED <<render_pc, debug_assertions, context, current, current_on,
                   surface_size, current_frame_size, frame_size_access,
                   gl_textures, gl_framebuffers, user_data, stores, created,
                   arg, ret>>

\* Whether `thread` is given the lock: a Mutex and the write side of a RwLock
\* when nobody holds the lock, the read side when nobody writes.
lock_available(thread, step) ==
    IF step.mode = "read"
    THEN \A t \in Threads : \A g \in lock_held[t] :
             g.lock = step.lock => g.mode = "read"
    ELSE \A t \in Threads : \A g \in lock_held[t] : g.lock # step.lock

\* lock(), read() or write() returns the guard.
lock_acquire(thread) ==
    /\ lock_todo[thread] # <<>>
    /\ Head(lock_todo[thread]).op = "acquire"
    /\ lock_available(thread, Head(lock_todo[thread]))
    /\ lock_held' = [lock_held EXCEPT ![thread] =
                        @ \cup {[lock |-> Head(lock_todo[thread]).lock,
                                 mode |-> Head(lock_todo[thread]).mode]}]
    /\ lock_todo' = [lock_todo EXCEPT ![thread] = Tail(@)]
    /\ UNCHANGED <<lock_call, appVars, msgVars, handler, trace>>
    /\ UNCHANGED <<render_pc, debug_assertions, context, current, current_on,
                   surface_size, current_frame_size, frame_size_access,
                   gl_textures, gl_framebuffers, user_data, stores, created,
                   arg, ret>>

\* The guard is dropped.
lock_release(thread) ==
    /\ lock_todo[thread] # <<>>
    /\ Head(lock_todo[thread]).op = "release"
    /\ lock_held' = [lock_held EXCEPT ![thread] =
                        {g \in @ : g.lock # Head(lock_todo[thread]).lock}]
    /\ lock_todo' = [lock_todo EXCEPT ![thread] = Tail(@)]
    /\ UNCHANGED <<lock_call, appVars, msgVars, handler, trace>>
    /\ UNCHANGED <<render_pc, debug_assertions, context, current, current_on,
                   surface_size, current_frame_size, frame_size_access,
                   gl_textures, gl_framebuffers, user_data, stores, created,
                   arg, ret>>

\* The handler returns.
lock_end(thread) ==
    /\ lock_call[thread] # "idle"
    /\ lock_todo[thread] = <<>>
    /\ lock_call' = [lock_call EXCEPT ![thread] = "idle"]
    /\ UNCHANGED <<lock_todo, lock_held, appVars, msgVars, handler, trace>>
    /\ UNCHANGED <<render_pc, debug_assertions, context, current, current_on,
                   surface_size, current_frame_size, frame_size_access,
                   gl_textures, gl_framebuffers, user_data, stores, created,
                   arg, ret>>

LockNext ==
    \/ \E c \in RenderThreadCalls : lock_begin(RenderThread, c)
    \/ \E c \in PlatformThreadCalls : lock_begin(PlatformThread, c)
    \/ \E t \in Threads : lock_acquire(t)
    \/ \E t \in Threads : lock_release(t)
    \/ \E t \in Threads : lock_end(t)

(***************************************************************************)
(* platform_message.rs: PlatformMessageResponseHandle                      *)
(*                                                                         *)
(* One handle object lives at a time.  A pointer is a positive number,     *)
(* null is 0.  `registrations` are the handles whose boxed callback the    *)
(* native layer holds, `sent` the pointers given over to the native layer. *)
(***************************************************************************)
NullPtr == 0

\* The buffers the native layer answers with; it passes a pointer and a size.
Buffers == {<<>>, <<7>>, <<7, 9>>}

MsgInit ==
    /\ handle_live = FALSE
    /\ handle_ptr = NullPtr
    /\ next_handle = 1
    /\ registrations = {}
    /\ sent = {}
    /\ invocations = <<>>
    /\ responses = <<>>

\* PlatformMessageResponseHandle::new: the callback is boxed and registered;
\* the native layer fills in the handle, or leaves it null when it fails.
PlatformMessageResponseHandle_new(native_ok) ==
    /\ ~handle_live
    /\ next_handle <= MaxHandles
    /\ next_handle' = next_handle + 1
    /\ handle_live' = TRUE
    /\ handle_ptr' = IF native_ok THEN next_handle ELSE NullPtr
    /\ registrations' = IF native_ok THEN registrations \cup {next_handle}
                        ELSE registrations
    /\ handler' = "PlatformMessageResponseHandle::new"
    /\ trace' = <<Call("FlutterPlatformMessageCreateResponseHandle",
                       <<B(native_ok)>>)>>
    /\ UNCHANGED <<sent, invocations, responses, appVars, renderVars>>

\* From<*const FlutterPlatformMessageResponseHandle>: the handle of a message
\* the engine sent, which is not null (line 103).
from_raw ==
    /\ ~handle_live
    /\ next_handle <= MaxHandles
    /\ next_handle' = next_handle + 1
    /\ handle_live' = TRUE
    /\ handle_ptr' = next_handle
    /\ handler' = "from_raw"
    /\ trace' = <<>>
    /\ UNCHANGED <<registrations, sent, invocations, responses, appVars,
                   renderVars>>

drop_calls_always_logs(ptr) ==
    <<Call("Drop::drop", <<ptr>>), Call("log.error", <<>>)>>

\* Drop for PlatformMessageResponseHandle: the calls of drop on a handle whose
\* pointer is ptr.
drop_calls(ptr) ==
    IF ptr # NullPtr
    THEN <<Call("Drop::drop", <<ptr>>), Call("log.error", <<>>)>>
    ELSE <<Call("Drop::drop", <<ptr>>)>>

\* A handle goes out of scope.
drop ==
    /\ handle_live
    /\ handle_live' = FALSE
    /\ handle_ptr' = NullPtr
    /\ handler' = "drop"
    /\ trace' = drop_calls(handle_ptr)
    /\ UNCHANGED <<next_handle, registrations, sent, invocations, responses,
                   appVars, renderVars>>

into_raw_keeps_pointer(ptr) ==
    [ret |-> ptr, handle |-> ptr]

\* `let ptr = handle.handle; handle.handle = ptr::null(); ptr`: the pointer
\* returned and the field the handle is left with.
into_raw_result(ptr) ==
    [ret |-> ptr, handle |-> NullPtr]

\* The calls of the conversion of a handle whose pointer is ptr: the handle is
\* dropped with the field it is left with, and the pointer is returned.
into_raw_calls(ptr) ==
    drop_calls(into_raw_result(ptr).handle)
        \o <<Call("return", <<into_raw_result(ptr).ret>>)>>

\* From<PlatformMessageResponseHandle> for *const ...
into_raw ==
    /\ handle_live
    /\ handle_live' = FALSE
    /\ handle_ptr' = NullPtr
    /\ sent' = IF handle_ptr = NullPtr THEN sent ELSE sent \cup {handle_ptr}
    /\ handler' = "into_raw"
    /\ trace' = into_raw_calls(handle_ptr)
    /\ UNCHANGED <<next_handle, registrations, invocations, responses,
                   appVars, renderVars>>

\* From<PlatformMessage> for FlutterPlatformMessage: response_handle.take()
\* converted with Into::into, or null when the message has no handle.
PlatformMessage_into(has_handle) ==
    /\ has_handle => handle_live
    /\ handle_live' = IF has_handle THEN FALSE ELSE handle_live
    /\ handle_ptr' = IF has_handle THEN NullPtr ELSE handle_ptr
    /\ sent' = IF has_handle /\ handle_ptr # NullPtr THEN sent \cup {handle_ptr}
               ELSE sent
    /\ handler' = IF has_handle THEN "PlatformMessage::into(Some)"
                  ELSE "PlatformMessage::into(None)"
    /\ trace' = IF has_handle THEN into_raw_calls(handle_ptr)
                ELSE <<Call("return", <<NullPtr>>)>>
    /\ UNCHANGED <<next_handle, registrations, invocations, responses,
                   appVars, renderVars>>

response_message_whole_buffer(data, size) ==
    data

\* std::slice::from_raw_parts(data, size)
response_message(data, size) ==
    SubSeq(data, 1, size)

\* response_handle_callback: the native layer answers a message that was sent
\* with a handle of PlatformMessageResponseHandle::new, once; the box is taken
\* back and the callback is called with the message.
response_handle_callback(id, data, size) ==
    /\ id \in sent
    /\ id \in registrations
    /\ registrations' = registrations \ {id}
    /\ responses' = Append(responses, [id |-> id, data |-> data, size |-> size])
    /\ invocations' = Append(invocations,
                             [id |-> id, message |-> response_message(data, size)])
    /\ handler' = "response_handle_callback"
    /\ trace' = <<Call("callback", response_message(data, size))>>
    /\ UNCHANGED <<handle_live, handle_ptr, next_handle, sent, appVars,
                   renderVars>>

MsgNext ==
    \/ \E ok \in BOOLEAN : PlatformMessageResponseHandle_new(ok)
    \/ from_raw
    \/ drop
    \/ into_raw
    \/ \E h \in BOOLEAN : PlatformMessage_into(h)
    \/ \E id \in 1..MaxHandles, data \in Buffers :
          \E size \in 0..Len(data) : response_handle_callback(id, data, size)

Init ==
    /\ AppInit
    /\ RenderInit
    /\ MsgInit
    /\ handler = "none"
    /\ trace = <<>>

\* The platform thread: the event loop of SctkApplication::run.
SpecApp == Init /\ [][AppNext]_vars

\* The event loop goes on: a dispatch handles the events that are ready and
\* ends, an expired timer is served in it, the callback and the test of the
\* stop signal follow.
FairSpecApp ==
    /\ Init
    /\ [][AppNext]_vars
    /\ WF_vars(loop_check)
    /\ WF_vars(end_dispatch)
    /\ WF_vars(\E ok \in BOOLEAN : startup_timer_fired(ok))
    /\ WF_vars(\E t \in {None} \cup {Some(d) : d \in Deadlines} : loop_callback(t))

\* The render thread and the platform thread in the handlers, lock step by
\* lock step.
SpecLocks == Init /\ [][LockNext]_vars

\* A thread that is in a handler goes on: it drops a guard and returns when it
\* can, and a lock it waits for is given to it when it is free again and again.
FairSpecLocks ==
    /\ Init
    /\ [][LockNext]_vars
    /\ \A t \in Threads : SF_vars(lock_acquire(t))
    /\ \A t \in Threads : WF_vars(lock_release(t))
    /\ \A t \in Threads : WF_vars(lock_end(t))

\* The rendering context under the calls of the OpenGL handler.
SpecContext == Init /\ [][ContextNext]_vars

\* The compositor handler: backing stores and present_view.
SpecCompositor == Init /\ [][CompositorNext]_vars

\* The response handles of platform messages.
SpecMessage == Init /\ [][MsgNext]_vars

(***************************************************************************)
(* Startup synchronisation: C1, C2, C8, C9, C10                            *)
(***************************************************************************)

\* The configure events received so far for a known flutter window, and those
\* of them that arrived before the engine was running.
KnownReceived == SelectSeq(received, LAMBDA e : e.win \in windows)
EarlyReceived == SelectSeq(KnownReceived, LAMBDA e : ~e.running)
AsWindowCall(e) == [win |-> e.win, configure |-> e.configure, serial |-> e.serial]
AsPending(e) == Some([configure |-> e.configure, serial |-> e.serial])

\* C1: while is_engine_running is false no window.configure call has been made,
\* by the configure handler or by anything else: a configure received in that
\* state is not forwarded before the engine runs.
C1_NoConfigureForwardedBeforeEngineRuns ==
    ~is_engine_running =>
        /\ window_calls = <<>>
        /\ SelectCalls(trace, "window.configure") = <<>>

C1_Witness ==
    /\ ~is_engine_running
    /\ handler = "configure"
    /\ Len(KnownReceived) >= 2
    /\ pending_configure # None

\* C2: the step in which engine.run() returns success sends exactly one
\* display-update notification and, if a configure was buffered, calls
\* window.configure exactly once, with the size and serial of the last buffered
\* event; if nothing was buffered it makes no window.configure call.
C2_StartupFlushesLastBufferedOnce ==
    [][(engine_run_result = "not_called" /\ engine_run_result' = "ok") =>
          /\ Len(SelectCalls(trace', "engine.notify_display_update")) = 1
          /\ IF KnownReceived = <<>>
             THEN /\ SelectCalls(trace', "window.configure") = <<>>
                  /\ window_calls' = window_calls
             ELSE /\ SelectCalls(trace', "window.configure")
                        = <<WindowCall(AsWindowCall(Last(KnownReceived)))>>
                  /\ window_calls'
                        = Append(window_calls, AsWindowCall(Last(KnownReceived)))
      ]_vars

C2_Witness ==
    /\ handler = "startup_timer"
    /\ engine_run_result = "ok"
    /\ Len(EarlyReceived) >= 2
    /\ window_calls = <<AsWindowCall(Last(EarlyReceived))>>

\* C8: while the engine is not running, pending_configure holds exactly the most
\* recent configure received for a known window (nothing if none was received),
\* and an earlier buffered event is never delivered to the window, then or later.
C8_PendingIsLatestConfigure ==
    /\ ~is_engine_running =>
          pending_configure = IF KnownReceived = <<>> THEN None
                              ELSE AsPending(Last(KnownReceived))
    /\ \A i \in 1..(Len(EarlyReceived) - 1) :
          \A j \in 1..Len(window_calls) :
              window_calls[j].serial # EarlyReceived[i].serial

C8_Witness ==
    /\ ~is_engine_running
    /\ Len(EarlyReceived) >= 2
    /\ EarlyReceived[1].configure # EarlyReceived[2].configure
    /\ pending_configure = AsPending(EarlyReceived[Len(EarlyReceived)])

\* C9: once is_engine_running is true, a configure event for a known window is
\* passed to window.configure by the handler that receives it, with its own size
\* and serial, after the calls of the events before it, and pending_configure
\* is left as it was.
C9_ConfigureForwardedOnceRunning ==
    [][(is_engine_running /\ received' # received
            /\ Last(received').win \in windows) =>
          /\ window_calls' = Append(window_calls, AsWindowCall(Last(received')))
          /\ trace' = <<WindowCall(AsWindowCall(Last(received')))>>
          /\ pending_configure' = pending_configure
      ]_vars

C9_Witness ==
    /\ is_engine_running
    /\ handler = "configure"
    /\ Len(window_calls) >= 2
    /\ Last(received).running
    /\ Last(window_calls) = AsWindowCall(Last(received))

\* C10: is_engine_running is false initially, turns true only in the step of the
\* startup timer in which engine.run() returned success, stays false when
\* engine.run() failed, and never turns false again.
C10_EngineRunningSetOnceOnSuccess ==
    /\ ~is_engine_running
    /\ [][/\ is_engine_running => is_engine_running'
          /\ (~is_engine_running /\ is_engine_running') =>
                /\ engine_run_result = "not_called"
                /\ engine_run_result' = "ok"
                /\ handler' = "startup_timer"
                /\ trace'[1] = Call("engine.run", <<1>>)
          /\ engine_run_result' = "failed" => ~is_engine_running'
      ]_vars

C10_Witness ==
    /\ is_engine_running
    /\ engine_run_result = "ok"
    /\ handler = "configure"
    /\ stop

(***************************************************************************)
(* Context (SpecContext)                                                   *)
(***************************************************************************)
PresentReturns(t) == SelectCalls(t, "Context::present")

\* C3, as the specification words it: Context::present never returns true
\* while the context is not current.
C3_PresentNeverTrueWhileNotCurrent ==
    \A i \in 1..Len(trace) :
        trace[i] = Call("Context::present", <<1>>) => current

\* C3: Context::present returns true only when the handle is held and the
\* native swap_buffers it has just made succeeded; without the handle it
\* returns false and makes no native call.  Whether the context is current
\* plays no part.
C3_PresentTrueOnlyWithHandleAndNativeSwap ==
    \A i \in 1..Len(trace) :
        trace[i].call = "Context::present" =>
            /\ trace[i].args = <<1>> =>
                   /\ context # None
                   /\ i > 1
                   /\ trace[i - 1] = Call("native.swap_buffers", <<1>>)
            /\ context = None =>
                   /\ trace[i].args = <<0>>
                   /\ SelectCalls(trace, "native.swap_buffers") = <<>>

\* A present after a failed release: the handle is gone and present is false.
C3_Witness ==
    /\ handler = "present"
    /\ context = None
    /\ ret = "false"
    /\ PresentReturns(trace) = <<Call("Context::present", <<0>>)>>

(***************************************************************************)
(* Compositor (SpecCompositor)                                             *)
(***************************************************************************)
GlCalls(t) ==
    SelectSeq(t, LAMBDA c : c.call \in {"gl.ClearColor", "gl.Clear", "gl.Disable",
                                        "gl.BindFramebuffer", "gl.BlitFramebuffer",
                                        "gl.GenTextures", "gl.GenFramebuffers",
                                        "gl.BindTexture", "gl.TexParameteri",
                                        "gl.TexImage2D", "gl.FramebufferTexture2D",
                                        "gl.DeleteFramebuffers", "gl.DeleteTextures"})

\* C4: collect_backing_store of a store that is not an OpenGL framebuffer
\* store returns CollectFailed, makes no DeleteFramebuffers or DeleteTextures
\* call, releases no user data, and leaves every texture, framebuffer and
\* store as it was.
C4_CollectOfForeignStoreFailsWithoutEffect ==
    [][(/\ handler' = "collect_backing_store"
        /\ ~(arg'.description = "OpenGL" /\ arg'.variant = "Framebuffer"))
        => /\ ret' = "CollectFailed"
           /\ SelectCalls(trace', "gl.DeleteFramebuffers") = <<>>
           /\ SelectCalls(trace', "gl.DeleteTextures") = <<>>
           /\ SelectCalls(trace', "framebuffer.drop_raw_user_data") = <<>>
           /\ UNCHANGED <<gl_textures, gl_framebuffers, user_data, stores>>]_vars

\* A software store is refused while the engine holds a live store.
C4_Witness ==
    /\ handler = "collect_backing_store"
    /\ arg.description = "Software"
    /\ ret = "CollectFailed"
    /\ user_data # {}
    /\ gl_framebuffers # {}
    /\ current

RoundHalfUp(tenths) ==
    IF (tenths % 10) >= 5 THEN ((tenths - (tenths % 10)) \div 10) + 1
    ELSE (tenths - (tenths % 10)) \div 10

\* C6: a backing store created with size (W, H) has its texture allocated
\* round(W) by round(H); presented as the single layer, the window is asked
\* about a frame of round(W) by round(H) and every blit copies
\* (0,0)-(round W, round H) onto the same rectangle.
C6_StoreTextureAndBlitUseRoundedSize ==
    /\ (handler = "create_backing_store" /\ ret = "Ok") =>
           /\ \E c \in {trace[i] : i \in 1..Len(trace)} :
                  /\ c.call = "gl.TexImage2D"
                  /\ c.args[4] = RoundHalfUp(arg[1])
                  /\ c.args[5] = RoundHalfUp(arg[2])
           /\ Len(SelectCalls(trace, "gl.TexImage2D")) = 1
    /\ \A s \in stores :
           \A t \in gl_textures :
               t.id = s.texture_id =>
                   t.size = <<RoundHalfUp(s.size[1]), RoundHalfUp(s.size[2])>>
    /\ (handler = "present_view" /\ Len(arg) = 1 /\ ret # "panic") =>
           LET W == RoundHalfUp(arg[1].size[1])
               H == RoundHalfUp(arg[1].size[2])
           IN /\ \A i \in 1..Len(trace) :
                     /\ trace[i].call = "gl.BlitFramebuffer" =>
                            trace[i].args = <<0, 0, W, H, 0, 0, W, H,
                                              GL_COLOR_BUFFER_BIT, GL_NEAREST>>
                     /\ trace[i].call = "window.on_frame_generated" =>
                            SubSeq(trace[i].args, 1, 2) = <<W, H>>
              /\ ret = "Ok" =>
                     /\ Len(SelectCalls(trace, "gl.BlitFramebuffer")) = 1
                     /\ Len(SelectCalls(trace, "window.on_frame_generated")) = 1

\* A store of 499.5 by 300.4 is presented alone: 500 by 300 everywhere.
C6_Witness ==
    /\ handler = "present_view"
    /\ Len(arg) = 1
    /\ ret = "Ok"
    /\ arg[1].size = <<4995, 3004>>
    /\ \E s \in stores :
           /\ s.k = arg[1].store
           /\ s.size = <<4995, 3004>>
           /\ [id |-> s.texture_id, size |-> <<500, 300>>] \in gl_textures
    /\ Call("gl.BlitFramebuffer", <<0, 0, 500, 300, 0, 0, 500, 300,
                                    GL_COLOR_BUFFER_BIT, GL_NEAREST>>)
           \in {trace[i] : i \in 1..Len(trace)}
    /\ trace[1] = Call("window.on_frame_generated", <<500, 300, 1>>)

(***************************************************************************)
(* Platform message response handles (SpecMessage)                         *)
(***************************************************************************)
FirstBytes(data, size) == [k \in 1..size |-> data[k]]

Calls(t) == {t[i] : i \in 1..Len(t)}

NativeCalls(t) ==
    SelectSeq(t, LAMBDA c : c.call \in {"native.make_current",
                                        "native.make_not_current",
                                        "native.swap_buffers"})

\* C11: when make_not_current returns true the handle is held again; a
\* make_current that comes next attempts the native bind and returns true
\* exactly when the bind succeeds; and a make_current or make_not_current on a
\* held handle whose native call succeeds returns true and keeps the handle,
\* so cycles of succeeding calls all return true.
C11_ReleaseRestoresHandle ==
    [][/\ Call("Context::make_not_current", <<1>>) \in Calls(trace')
            => context' # None
       /\ (/\ trace # <<>>
           /\ Last(trace) = Call("Context::make_not_current", <<1>>)
           /\ handler' = "make_current")
            => /\ Len(SelectCalls(trace', "native.make_current")) = 1
               /\ ret' = "true"
                    <=> Call("native.make_current", <<1>>) \in Calls(trace')
       /\ (/\ context # None
           /\ handler' \in {"make_current", "clear_current"}
           /\ \A i \in 1..Len(NativeCalls(trace')) :
                  NativeCalls(trace')[i].args = <<1>>)
            => /\ ret' = "true"
               /\ context' # None]_vars

\* A release has succeeded and the handle is held for the next make_current.
C11_Witness ==
    /\ handler = "clear_current"
    /\ ret = "true"
    /\ trace = <<Call("native.make_not_current", <<1>>),
                 Call("Context::make_not_current", <<1>>)>>
    /\ context = TheContext
    /\ ~current

\* C12: make_current returns false without a native bind when the handle is
\* absent, otherwise makes one native bind and returns whether it succeeded;
\* it never changes whether the handle is held.
C12_MakeCurrentReturnRules ==
    [][handler' = "make_current" =>
         /\ context' = context
         /\ IF context = None
            THEN /\ ret' = "false"
                 /\ NativeCalls(trace') = <<>>
            ELSE /\ Len(NativeCalls(trace')) = 1
                 /\ NativeCalls(trace')[1].call = "native.make_current"
                 /\ ret' = "true" <=> NativeCalls(trace')[1].args = <<1>>
                 /\ ret' = "false" <=> NativeCalls(trace')[1].args = <<0>>]_vars

\* make_current on a context whose handle a failed release has lost.
C12_Witness ==
    /\ handler = "make_current"
    /\ context = None
    /\ ret = "false"
    /\ trace = <<Call("Context::make_current", <<0>>)>>

\* C13, as the specification words it: resize changes the surface size only
\* when the context is current, and is a no-op otherwise.
C13_ResizeOnlyWhenCurrent ==
    [][(handler' = "resize" /\ ~current) =>
          /\ surface_size' = surface_size
          /\ trace' = <<>>]_vars

\* C13: resize passes the new size to the native surface whenever the handle
\* is held, current or not, and is a no-op only when the handle is absent; it
\* changes neither the handle nor whether the context is current.
C13_ResizeWheneverHandleHeld ==
    [][handler' = "resize" =>
         /\ UNCHANGED <<context, current>>
         /\ IF context # None
            THEN /\ surface_size' = arg'
                 /\ trace' = <<Call("native.surface_resize", arg')>>
            ELSE /\ surface_size' = surface_size
                 /\ trace' = <<>>]_vars

\* The surface of a context that is held but not current has been resized.
C13_Witness ==
    /\ handler = "resize"
    /\ context # None
    /\ ~current
    /\ arg = <<800, 600>>
    /\ surface_size = <<800, 600>>
    /\ trace = <<Call("native.surface_resize", <<800, 600>>)>>

(***************************************************************************)
(* Compositor, continued (SpecCompositor)                                  *)
(***************************************************************************)
\* The textures and framebuffers that are live are exactly those of the
\* stores the engine holds.
LiveMatchesStores ==
    /\ {t.id : t \in gl_textures} = {s.texture_id : s \in stores} \ {0}
    /\ {f.id : f \in gl_framebuffers} = {s.framebuffer_id : s \in stores} \ {0}

TexturesOf(textures, s) == {t \in textures : t.id = s.texture_id}
FramebuffersOf(framebuffers, s) == {f \in framebuffers : f.id = s.framebuffer_id}

C15_MakeCurrentFailureStopsPresentView ==
    (/\ handler = "present_view"
     /\ Call("Context::make_current", <<0>>) \in Calls(trace)) =>
        /\ ret = "PresentFailed"
        /\ GlCalls(trace) = <<>>
        /\ SelectCalls(trace, "native.swap_buffers") = <<>>
        /\ SelectCalls(trace, "Context::present") = <<>>
        /\ SelectCalls(trace, "window.on_frame_presented") = <<>>
        /\ Last(trace) = Call("Context::make_current", <<0>>)

\* The native bind fails while a layer is being presented.
C15_Witness ==
    /\ handler = "present_view"
    /\ Len(arg) = 1
    /\ ret = "PresentFailed"
    /\ context # None
    /\ Len(trace) = 3
    /\ trace[1].call = "window.on_frame_generated"
    /\ trace[2] = Call("native.make_current", <<0>>)
    /\ trace[3] = Call("Context::make_current", <<0>>)

\* The window's answer to on_frame_generated or on_empty_frame_generated, when
\* the handler asked.
WindowAsked(t) ==
    /\ t # <<>>
    /\ t[1].call \in {"window.on_frame_generated", "window.on_empty_frame_generated"}
WindowRejected(t) == WindowAsked(t) /\ Last(t[1].args) = 0

\* C16: when the window answers false to on_frame_generated, or to
\* on_empty_frame_generated for an empty frame, present returns false and
\* present_view returns PresentFailed, and asking the window is the only call
\* made: no make_current, no GL call, no buffer swap, no on_frame_presented.
C16_RejectedFrameIsDropped ==
    (handler \in {"present", "present_view"} /\ WindowRejected(trace)) =>
        /\ trace = <<trace[1]>>
        /\ handler = "present" => ret = "false"
        /\ handler = "present_view" => ret = "PresentFailed"
        /\ trace[1].call = "window.on_empty_frame_generated"
               <=> (handler = "present_view" /\ arg = <<>>)

\* The window rejects the frame of a layer of 800.5 by 599.6.
C16_Witness ==
    /\ handler = "present_view"
    /\ ret = "PresentFailed"
    /\ trace = <<Call("window.on_frame_generated", <<801, 600, 0>>)>>

(***************************************************************************)
(* Platform message response handles, continued (SpecMessage)              *)
(***************************************************************************)
\* C17: converting a handle into its native pointer, directly or as the
\* response_handle of a message, returns the pointer the handle held and
\* drops the handle with a null pointer and without an error; and on every
\* drop the error is logged exactly when the pointer is not null.
C17_ConversionReturnsPointerAndSilencesDrop ==
    [][/\ handler' \in {"into_raw", "PlatformMessage::into(Some)"} =>
            /\ Last(trace') = Call("return", <<handle_ptr>>)
            /\ SelectCalls(trace', "Drop::drop")
                   = <<Call("Drop::drop", <<NullPtr>>)>>
            /\ SelectCalls(trace', "log.error") = <<>>
            /\ handle_ptr # NullPtr => handle_ptr \in sent'
       /\ handler' = "PlatformMessage::into(None)" =>
            /\ trace' = <<Call("return", <<NullPtr>>)>>
            /\ UNCHANGED <<handle_live, handle_ptr>>
       /\ handler' = "drop" =>
            /\ SelectCalls(trace', "Drop::drop")
                   = <<Call("Drop::drop", <<handle_ptr>>)>>
            /\ Call("log.error", <<>>) \in Calls(trace') <=> handle_ptr # NullPtr
       /\ \A i \in 1..Len(trace') :
            /\ trace'[i].call = "Drop::drop" =>
                   (trace'[i].args # <<NullPtr>>
                        <=> (i < Len(trace') /\ trace'[i + 1].call = "log.error"))
            /\ trace'[i].call = "log.error" =>
                   (i > 1 /\ trace'[i - 1].call = "Drop::drop")]_vars

\* The handle of a message has been converted: its pointer is returned and
\* the drop of the handle is silent.
C17_Witness ==
    /\ handler = "PlatformMessage::into(Some)"
    /\ trace = <<Call("Drop::drop", <<NullPtr>>), Call("return", <<2>>)>>
    /\ 2 \in sent
    /\ ~handle_live

(***************************************************************************)
(* Application, continued (SpecApp, FairSpecApp)                           *)
(***************************************************************************)
EngineRunCalls(t) == SelectSeq(t, LAMBDA c : c.call = "engine.run")

\* C18: engine.run() is called once: by the callback of the immediate timer,
\* in a dispatch of the running loop, never before event_loop.run has
\* started; the timer is dropped by that callback, the first dispatch does
\* not end without it, and no later step calls engine.run() again.
C18_EngineRunOnceFromStartupTimer ==
    /\ engine_run_calls = 0
    /\ loop_pc = "new"
    /\ startup_timer = "none"
    /\ [][/\ engine_run_calls' # engine_run_calls =>
               /\ loop_pc = "dispatch"
               /\ handler' = "startup_timer"
               /\ startup_timer = "armed"
               /\ startup_timer' = "dropped"
               /\ engine_run_calls = 0
               /\ engine_run_calls' = 1
               /\ Len(EngineRunCalls(trace')) = 1
          /\ (EngineRunCalls(trace') # <<>> /\ trace' # trace) =>
               engine_run_calls' = engine_run_calls + 1
          /\ startup_timer' = "armed" => loop_pc # "new" \/ handler' = "run"
          /\ engine_run_calls' <= 1
          /\ engine_run_calls' = 1 <=> startup_timer' = "dropped"
          /\ loop_pc' \in {"callback", "returned", "panicked"} =>
               engine_run_calls' = 1]_vars

\* The loop has gone on after the engine was started: the timer is gone and
\* engine.run() was called once.
C18_Witness ==
    /\ handler = "loop_callback"
    /\ loop_pc = "dispatch"
    /\ timers # {}
    /\ startup_timer = "dropped"
    /\ engine_run_result = "ok"
    /\ engine_run_calls = 1

OutputHandlers == {"new_output", "update_output", "output_destroyed"}

\* C20, as the specification words it: every output added, updated or
\* destroyed sends a display-update notification listing the outputs.
C20_EveryOutputChangeNotifies ==
    [][(handler' \in OutputHandlers /\ loop_pc' = loop_pc) =>
          \E listed \in {outputs, outputs'} :
              trace' = <<Call("engine.notify_display_update", SetToSeq(listed))>>]_vars

\* C20: while the engine is running, every output added, updated or
\* destroyed sends one display-update notification that lists the outputs
\* OutputState holds when the handler runs (all outputs after an add or an
\* update; after a destroy the remaining ones, with or without the destroyed
\* one); while the engine is not running none is sent.
C20_OutputChangeNotifiesWhileRunning ==
    [][(handler' \in OutputHandlers /\ loop_pc' = loop_pc) =>
          IF is_engine_running
          THEN \E listed \in {outputs, outputs'} :
                  /\ handler' \in {"new_output", "update_output"} => listed = outputs'
                  /\ trace' = <<Call("engine.notify_display_update", SetToSeq(listed))>>
                  /\ engine_displays' = Some(listed)
          ELSE /\ trace' = <<>>
               /\ engine_displays' = engine_displays]_vars

\* A second output was added while the engine runs and the engine was told
\* about both.
C20_Witness ==
    /\ handler = "new_output"
    /\ is_engine_running
    /\ outputs = {1, 2}
    /\ trace = <<Call("engine.notify_display_update", <<1, 2>>)>>
    /\ engine_displays = Some({1, 2})

(***************************************************************************)
(* Startup synchronisation, continued (SpecApp)                            *)
(***************************************************************************)
\* How often the configure event e was handed to the window.
TimesHandedToWindow(e) ==
    Len(SelectSeq(window_calls, LAMBDA c : c = AsWindowCall(e)))

\* C21: once is_engine_running is true pending_configure is None, in every
\* state, and no configure that was buffered (received for a known window
\* before the engine ran) has been handed to the window more than once.
C21_NoPendingOnceRunningAndBufferedHandedAtMostOnce ==
    /\ is_engine_running => pending_configure = None
    /\ \A i \in 1..Len(EarlyReceived) : TimesHandedToWindow(EarlyReceived[i]) <= 1

\* The engine runs, the buffered configure was flushed, and a later configure
\* went straight to the window.
C21_Witness ==
    /\ is_engine_running
    /\ pending_configure = None
    /\ handler = "configure"
    /\ Len(EarlyReceived) >= 1
    /\ TimesHandedToWindow(Last(EarlyReceived)) = 1
    /\ Len(window_calls) = 2

(***************************************************************************)
(* Rendering context, continued (SpecContext)                              *)
(***************************************************************************)
\* C22: in every state between two Context operations the handle is Some,
\* whatever operations ran and whatever the native calls answered.
C22_HandleHeldBetweenOperations ==
    context # None

(***************************************************************************)
(* Threads of the rendering context (SpecCompositor)                       *)
(***************************************************************************)
\* C23: with make_current, clear_current, present and present_view on the
\* render thread, and resize and the make_current / make_not_current pair of
\* SctkCompositorHandler::new on the platform thread, the native context is
\* current on at most one thread in every state, whatever the native calls
\* answer.
C23_CurrentOnAtMostOneThread ==
    Cardinality(current_on) <= 1

\* The render thread has presented a layer with the context current on it,
\* after the construction pair ran on the platform thread and the platform
\* thread resized the surface.
C23_Witness ==
    /\ handler = "present_view"
    /\ ret = "Ok"
    /\ current_on = {RenderThread}
    /\ surface_size # <<0, 0>>

(***************************************************************************)
(* GL calls and the current context (SpecCompositor)                       *)
(***************************************************************************)
IsGlCall(c) == GlCalls(<<c>>) # <<>>

\* The call at position i of t is a native bind that succeeded, and no GL call
\* comes before it.
AcquiredBeforeGl(t, i) ==
    /\ t[i] = Call("native.make_current", <<1>>)
    /\ \A j \in 1..(i - 1) : ~IsGlCall(t[j])

\* C24, as the specification words it: a GL call of create_backing_store,
\* collect_backing_store, present_view or clear is made only while the context
\* is current on the calling thread.
C24_GlCallsOnlyWhileCurrent ==
    (/\ handler \in {"create_backing_store", "collect_backing_store", "present_view"}
     /\ GlCalls(trace) # <<>>) => RenderThread \in current_on

\* C24: present_view and clear make their GL calls only after their own
\* make_current has succeeded, so with the context current on the calling
\* thread; create_backing_store and collect_backing_store make no
\* make_current call and no other check of the context before their GL calls,
\* which create_backing_store always makes and collect_backing_store makes
\* for every store it accepts.
C24_PresentAcquiresCreateAndCollectDoNot ==
    /\ (handler = "present_view" /\ GlCalls(trace) # <<>>) =>
          /\ RenderThread \in current_on
          /\ \E i \in 1..Len(trace) : AcquiredBeforeGl(trace, i)
    /\ handler \in {"create_backing_store", "collect_backing_store"} =>
          /\ SelectCalls(trace, "Context::make_current") = <<>>
          /\ SelectCalls(trace, "native.make_current") = <<>>
          /\ (handler = "create_backing_store" \/ ret # "CollectFailed") =>
                 /\ GlCalls(trace) # <<>>
                 /\ IsGlCall(trace[1])

\* A backing store was created, with all its GL calls, while the context was
\* current on no thread.
C24_Witness ==
    /\ handler = "create_backing_store"
    /\ ret = "Ok"
    /\ current_on = {}
    /\ Len(GlCalls(trace)) = 11

(***************************************************************************)
(* Order of the steps of present_view (SpecCompositor)                     *)
(***************************************************************************)
\* The positions of the calls named `name` in t.
PositionsOf(t, name) == {i \in 1..Len(t) : t[i].call = name}

\* Every call named `first` in t comes before every call named `second`.
AllBefore(t, first, second) ==
    \A i \in PositionsOf(t, first), j \in PositionsOf(t, second) : i < j

\* C25: a present_view of one layer that succeeds makes exactly these calls,
\* in this order: on_frame_generated with the rounded layer size, make_current,
\* Disable(SCISSOR_TEST), BindFramebuffer(READ, the layer's framebuffer),
\* BindFramebuffer(DRAW, 0), BlitFramebuffer over the rounded size with
\* NEAREST, the buffer swap, on_frame_presented.  In every present_view,
\* finished or not, a blit comes after the scissor test was disabled and a
\* swap comes after the blit.
C25_PresentViewStepsInOrder ==
    handler = "present_view" =>
        /\ (Len(arg) = 1 /\ ret = "Ok") =>
              LET w == round(arg[1].size[1])
                  h == round(arg[1].size[2])
              IN trace = <<Call("window.on_frame_generated", <<w, h, 1>>),
                           Call("native.make_current", <<1>>),
                           Call("Context::make_current", <<1>>),
                           Call("gl.Disable", <<GL_SCISSOR_TEST>>),
                           Call("gl.BindFramebuffer",
                                <<GL_READ_FRAMEBUFFER, arg[1].name>>),
                           Call("gl.BindFramebuffer", <<GL_DRAW_FRAMEBUFFER, 0>>),
                           Call("gl.BlitFramebuffer",
                                <<0, 0, w, h, 0, 0, w, h, GL_COLOR_BUFFER_BIT,
                                  GL_NEAREST>>),
                           Call("native.swap_buffers", <<1>>),
                           Call("Context::present", <<1>>),
                           Call("window.on_frame_presented", <<>>)>>
        /\ PositionsOf(trace, "gl.BlitFramebuffer") # {} =>
              /\ PositionsOf(trace, "gl.Disable") # {}
              /\ AllBefore(trace, "gl.Disable", "gl.BlitFramebuffer")
        /\ Len(arg) >= 1 /\ PositionsOf(trace, "native.swap_buffers") # {} =>
              /\ PositionsOf(trace, "gl.BlitFramebuffer") # {}
              /\ AllBefore(trace, "gl.BlitFramebuffer", "native.swap_buffers")

\* One layer of a backing store was blitted and presented.
C25_Witness ==
    /\ handler = "present_view"
    /\ Len(arg) = 1
    /\ ret = "Ok"
    /\ arg[1].name = FramebufferName(1)
    /\ Len(trace) = 10
    /\ trace[7].call = "gl.BlitFramebuffer"
    /\ trace[8] = Call("native.swap_buffers", <<1>>)

(***************************************************************************)
(* The current frame size (SpecContext)                                    *)
(***************************************************************************)
\* C26: the frame size is 0x0 at first; fbo_with_frame_info_callback returns
\* framebuffer 0 for every size and stores the size; no other handler changes
\* the stored size; and a present passes the stored size, so the size of the
\* most recent fbo_with_frame_info_callback, to on_frame_generated.
C26_PresentUsesLastFrameInfoSize ==
    /\ current_frame_size = <<0, 0>>
    /\ [][/\ handler' = "fbo_with_frame_info_callback" =>
                /\ ret' = "0"
                /\ current_frame_size' = arg'
          /\ handler' # "fbo_with_frame_info_callback" =>
                current_frame_size' = current_frame_size
          /\ handler' = "present" =>
                /\ trace'[1].call = "window.on_frame_generated"
                /\ SubSeq(trace'[1].args, 1, 2) = current_frame_size
                /\ Len(SelectCalls(trace', "window.on_frame_generated")) = 1
      ]_vars

\* A present passed on the size of the last frame info, which is not the size
\* the surface was resized to.
C26_Witness ==
    /\ handler = "present"
    /\ current_frame_size = <<800, 600>>
    /\ surface_size = <<500, 400>>
    /\ trace[1] = Call("window.on_frame_generated", <<800, 600, 1>>)

(***************************************************************************)
(* Accesses to the current frame size (SpecContext)                        *)
(***************************************************************************)
\* C27, as the specification words it: current_frame_size is written by the
\* platform thread in resize and read by the render thread in present, each
\* access under the lock.
C27_WrittenByPlatformThreadOnResize ==
    /\ handler = "resize" => frame_size_access # None
    /\ frame_size_access # None =>
          LET a == Unwrap(frame_size_access)
          IN /\ a.lock = a.mode
             /\ a.mode = "write" => (a.thread = PlatformThread /\ handler = "resize")
             /\ a.mode = "read" => (a.thread = RenderThread /\ handler = "present")

\* C27: current_frame_size is written only by fbo_with_frame_info_callback,
\* on the render thread, under the write guard of its lock, and read only by
\* present, on the render thread, under the read guard; resize, on the
\* platform thread, neither reads nor writes it.
C27_WrittenAndReadOnRenderThreadUnderLock ==
    /\ [](frame_size_access # None =>
             LET a == Unwrap(frame_size_access)
             IN /\ a.lock = a.mode
                /\ a.thread = RenderThread
                /\ a.mode = "write" <=> handler = "fbo_with_frame_info_callback"
                /\ a.mode = "read" <=> handler = "present")
    /\ [](handler \in {"fbo_with_frame_info_callback", "present"} =>
             frame_size_access # None)
    /\ [][handler' = "resize" =>
             /\ frame_size_access' = None
             /\ current_frame_size' = current_frame_size]_vars

\* The platform thread has resized the surface to one size while the frame
\* size written by the render thread is another.
C27_Witness ==
    /\ handler = "resize"
    /\ arg = <<800, 600>>
    /\ frame_size_access = None
    /\ current_frame_size = <<500, 400>>

(***************************************************************************)
(* Platform tasks and their timers (SpecApp)                               *)
(***************************************************************************)
PlatformTaskCalls(t) == SelectCalls(t, "engine.execute_platform_tasks")

DisplayUpdateCalls(t) == SelectCalls(t, "engine.notify_display_update")

\* C29: while the engine is not running no handler sends a display update,
\* whatever outputs are added, updated or destroyed, and the engine knows no
\* displays; the step in which the engine becomes running sends exactly one
\* display update, which lists all the outputs there are at that moment.
C29_NoDisplayUpdateBeforeStartupThenOneComplete ==
    /\ [](~is_engine_running =>
             /\ DisplayUpdateCalls(trace) = <<>>
             /\ engine_displays = None)
    /\ [][(~is_engine_running /\ is_engine_running') =>
             /\ DisplayUpdateCalls(trace')
                   = <<Call("engine.notify_display_update", SetToSeq(outputs))>>
             /\ engine_displays' = Some(outputs)
             /\ outputs' = outputs]_vars

\* The engine has just started and was told about the two outputs that were
\* added before.
C29_Witness ==
    /\ handler = "startup_timer"
    /\ is_engine_running
    /\ outputs = {1, 2}
    /\ engine_displays = Some({1, 2})
    /\ DisplayUpdateCalls(trace) = <<Call("engine.notify_display_update", <<1, 2>>)>>

(***************************************************************************)
(* Locks of the handlers (FairSpecLocks)                                   *)
(***************************************************************************)
\* A thread that is in a handler can make its next step, or waits for a lock
\* that another thread holds and can drop.
CanStep(t) == ENABLED (lock_acquire(t) \/ lock_release(t) \/ lock_end(t))

\* C30: a thread takes the context mutex, the resource-context mutex or the
\* frame-size lock only while it holds none of them; so at any moment one of
\* the threads that are in a handler can go on, and every call of present,
\* present_view, make_current, clear_current, fbo_with_frame_info_callback
\* and the other render-thread handlers, and every resize of the platform
\* thread, returns in the end.
C30_NoNestedLockingAndEveryCallReturns ==
    /\ [][\A t \in Threads :
             lock_held'[t] # lock_held[t] /\ lock_held[t] \subseteq lock_held'[t]
                 => lock_held[t] = {}]_vars
    /\ [](\A t \in Threads : Cardinality(lock_held[t]) <= 1)
    /\ []((\E t \in Threads : lock_call[t] # "idle") => \E t \in Threads : CanStep(t))
    /\ \A t \in Threads : (lock_call[t] # "idle") ~> (lock_call[t] = "idle")

\* The platform thread waits in resize for the context mutex, which the
\* render thread holds in the second half of a present_view.
C30_Witness ==
    /\ lock_call[RenderThread] = "present_view"
    /\ lock_held[RenderThread] = {[lock |-> ContextMutex, mode |-> "exclusive"]}
    /\ Len(lock_todo[RenderThread]) = 1
    /\ lock_call[PlatformThread] = "resize"
    /\ Len(lock_todo[PlatformThread]) = 2
    /\ ~ENABLED lock_acquire(PlatformThread)

(***************************************************************************)
(* No retries in present, present_view and clear (SpecCompositor)          *)
(***************************************************************************)
\* The calls of t that report a failure: the window's rejection, a
\* make_current or a present of the Context that returned false.
FailedCalls(t) ==
    SelectSeq(t, LAMBDA c :
        /\ c.call \in {"window.on_frame_generated", "window.on_empty_frame_generated",
                       "Context::make_current", "Context::present"}
        /\ Last(c.args) = 0)

\* C31: one call of present, present_view or clear asks the window at most
\* once, calls make_current at most once and swaps the buffers at most once;
\* when a step fails the call returns false or PresentFailed with that step
\* as its last call, and a call that succeeds had no failed step.
C31_AtMostOneAttemptAndFailureReturnsAtOnce ==
    handler \in {"present", "present_view"} =>
        /\ Len(SelectCalls(trace, "window.on_frame_generated"))
              + Len(SelectCalls(trace, "window.on_empty_frame_generated")) <= 1
        /\ Len(SelectCalls(trace, "Context::make_current")) <= 1
        /\ Len(SelectCalls(trace, "native.make_current")) <= 1
        /\ Len(SelectCalls(trace, "Context::present")) <= 1
        /\ Len(SelectCalls(trace, "native.swap_buffers")) <= 1
        /\ Len(FailedCalls(trace)) <= 1
        /\ FailedCalls(trace) # <<>> =>
              /\ ret \in {"false", "PresentFailed"}
              /\ Last(trace) = FailedCalls(trace)[1]
        /\ ret \in {"true", "Ok"} => FailedCalls(trace) = <<>>

\* The swap of a present_view failed after the blit: one make_current, one
\* swap, PresentFailed.
C31_Witness ==
    /\ handler = "present_view"
    /\ Len(arg) = 1
    /\ ret = "PresentFailed"
    /\ Len(SelectCalls(trace, "gl.BlitFramebuffer")) = 1
    /\ Last(trace) = Call("Context::present", <<0>>)

(***************************************************************************)
(* The assertions of present_view (SpecCompositor)                         *)
(***************************************************************************)
\* C32: a present_view with more than one layer, or with one layer whose
\* offset is not (0, 0), fails an assertion and makes no blit and no present.
C32_UnsupportedLayersFailAssertion ==
    (/\ handler = "present_view"
     /\ \/ Len(arg) > 1
        \/ (Len(arg) = 1 /\ arg[1].offset # <<0, 0>>)) =>
        /\ ret = "panic"
        /\ SelectCalls(trace, "gl.BlitFramebuffer") = <<>>
        /\ SelectCalls(trace, "native.swap_buffers") = <<>>
        /\ SelectCalls(trace, "Context::present") = <<>>

(***************************************************************************)
(* application.rs: the frame callback and the refresh rate of a surface    *)
(***************************************************************************)

\* Mode.refresh_rate, an i32 in mHz: a rate no compositor should send, none,
\* 60 Hz and 144 Hz.
RefreshRates == {-1, 0, 60000, 144000}

Mode(is_current, rate) == [current |-> is_current, refresh_rate |-> rate]

\* OutputInfo.modes of an output.
ModeLists ==
    {<<>>, <<Mode(FALSE, 144000), Mode(TRUE, 60000)>>}
    \cup {<<Mode(TRUE, r)>> : r \in RefreshRates \ {60000}}

\* output_state.info(&output): None for an output the state does not know.
OutputInfos == {None} \cup {Some(m) : m \in ModeLists}

\* surface.data::<SurfaceData>(): None, or the outputs the surface is on.
SurfaceDatas ==
    {None} \cup {Some(<<>>)} \cup {Some(<<a>>) : a \in OutputInfos}
    \cup {Some(<<a, b>>) : a, b \in OutputInfos}

\* The batons of the vsync handler.
Batons == {1, 2}

FRAME_INTERVAL_60_HZ_IN_NANOS == 16666666

\* info.modes.iter().find(|mode| mode.current)
RECURSIVE find_current_mode(_)
find_current_mode(modes) ==
    IF modes = <<>> THEN None
    ELSE IF modes[1].current THEN Some(modes[1])
    ELSE find_current_mode(Tail(modes))

\* The closure of filter_map, over the outputs in order.
RECURSIVE current_refresh_rates(_)
current_refresh_rates(infos) ==
    IF infos = <<>> THEN <<>>
    ELSE LET info == infos[1]
             current_mode == IF info = None THEN None
                             ELSE find_current_mode(Unwrap(info))
         IN (IF current_mode = None THEN <<>>
             ELSE <<Unwrap(current_mode).refresh_rate>>)
            \o current_refresh_rates(Tail(infos))

\* Iterator::max
RECURSIVE max(_)
max(rates) ==
    IF rates = <<>> THEN None
    ELSE LET rest == max(Tail(rates))
         IN IF rest = None \/ Unwrap(rest) <= rates[1] THEN Some(rates[1])
            ELSE rest

get_surface_refresh_rate_in_mhz_of_first_output(data) ==
    IF data = None THEN None
    ELSE LET rates == current_refresh_rates(Unwrap(data))
         IN IF rates = <<>> THEN None ELSE Some(rates[1])

\* get_surface_refresh_rate_in_mhz
get_surface_refresh_rate_in_mhz(data) ==
    IF data = None THEN None
    ELSE max(current_refresh_rates(Unwrap(data)))

\* 1_000_000_000_000 / refresh_rate in u64, for a divisor from 466 to 2147483:
\* the long division of the digits 1, 0, 0, 0, 0 in base 1000, which keeps
\* every intermediate value below 2^31.
RECURSIVE div_1e12(_, _, _, _)
div_1e12(refresh_rate, digits, quotient, remainder) ==
    IF digits = 0 THEN quotient
    ELSE LET n == remainder * 1000
         IN div_1e12(refresh_rate, digits - 1,
                     quotient * 1000 + n \div refresh_rate, n % refresh_rate)

\* get_surface_frame_interval_in_nanos.  A negative i32 converted with
\* `as u64` is 2^64 + refresh_rate, above 10^12 and not zero: the quotient is 0.
get_surface_frame_interval_in_nanos(data) ==
    LET rate == get_surface_refresh_rate_in_mhz(data)
    IN IF rate = None THEN None
       ELSE LET refresh_rate == Unwrap(rate)
            IN IF refresh_rate = 0 THEN None
               ELSE IF refresh_rate < 0 THEN Some(0)
               ELSE Some(div_1e12(refresh_rate, 4, 0, 1))

\* Option::unwrap_or
unwrap_or(opt, default) == IF opt = None THEN default ELSE Unwrap(opt)

\* CompositorHandler::frame.  The second argument of the call stands for the
\* two times get_flutter_frame_time_nanos derives from the frame interval.
frame(data, baton) ==
    /\ loop_pc = "dispatch"
    /\ handler' = "frame"
    /\ LET frame_interval ==
               unwrap_or(get_surface_frame_interval_in_nanos(data),
                         FRAME_INTERVAL_60_HZ_IN_NANOS)
       IN trace' = <<Call("engine.on_vsync", <<baton, frame_interval>>)>>
    /\ arg' = data
    /\ UNCHANGED <<msgVars, appVars, render_pc, debug_assertions, context,
                   current, current_on, surface_size, current_frame_size,
                   frame_size_access, gl_textures, gl_framebuffers, user_data,
                   stores, created, ret, lockVars>>

\* The frame callbacks of the compositor, in the event loop.
FrameNext ==
    \/ run
    \/ loop_check
    \/ end_dispatch
    \/ \E ok \in BOOLEAN : startup_timer_fired(ok)
    \/ loop_callback(None)
    \/ request_close
    \/ \E d \in SurfaceDatas, b \in Batons : frame(d, b)

SpecFrame == Init /\ [][FrameNext]_vars

(***************************************************************************)
(* application.rs: the events of the compositor for a surface              *)
(***************************************************************************)

\* SctkFlutterWindow::wl_surface_id: the surface of a toplevel.
wl_surface_id(win) == 10 + win

\* The surface of the implicit window, and one of no flutter window.
Surfaces == {wl_surface_id(t) : t \in Toplevels}

ScaleFactors == {1, 2}

\* PointerEvent: its surface and its kind.
PointerEvents ==
    [surface : {wl_surface_id(ImplicitToplevel)}, kind : {"Motion", "Press"}]
    \cup [surface : {wl_surface_id(ForeignToplevel)}, kind : {"Motion"}]

\* events: &[PointerEvent], the events of one pointer frame.
PointerFrames ==
    {<<>>} \cup {<<a>> : a \in PointerEvents}
    \cup {<<a, b>> : a, b \in PointerEvents}
    \cup {<<a, b, c>> : a, b, c \in PointerEvents}

\* find_window_by_surface_id_mut
find_window_by_surface_id_mut(surface_id) ==
    LET found == {w \in windows : wl_surface_id(w) = surface_id}
    IN IF found = {} THEN None ELSE Some(CHOOSE w \in found : TRUE)

\* What the three CompositorHandler callbacks share: the window is looked up
\* by its surface, and an event for no flutter window is dropped.
surface_event(name, surface, calls) ==
    /\ loop_pc = "dispatch"
    /\ handler' = name
    /\ trace' = IF find_window_by_surface_id_mut(surface) = None THEN <<>>
                ELSE calls
    /\ UNCHANGED <<msgVars, appVars, render_pc, debug_assertions, context,
                   current, current_on, surface_size, current_frame_size,
                   frame_size_access, gl_textures, gl_framebuffers, user_data,
                   stores, created, ret, lockVars>>

\* CompositorHandler::scale_factor_changed
scale_factor_changed(surface, new_scale_factor) ==
    /\ arg' = <<surface, new_scale_factor>>
    /\ surface_event("scale_factor_changed", surface,
                     <<Call("window.scale_factor_changed",
                            <<surface, new_scale_factor>>)>>)

\* CompositorHandler::surface_enter
surface_enter(surface, output) ==
    /\ arg' = <<surface, output>>
    /\ surface_event("surface_enter", surface,
                     <<Call("window.surface_outputs_changed", <<surface>>)>>)

\* CompositorHandler::surface_leave
surface_leave(surface, output) ==
    /\ arg' = <<surface, output>>
    /\ surface_event("surface_leave", surface,
                     <<Call("window.surface_outputs_changed", <<surface>>)>>)

RECURSIVE pointer_event_calls_stopping_at_unknown(_)
pointer_event_calls_stopping_at_unknown(events) ==
    IF events = <<>> THEN <<>>
    ELSE IF find_window_by_surface_id_mut(events[1].surface) = None
    THEN <<>>
    ELSE <<Call("window.pointer_event", <<events[1].surface, events[1].kind>>)>>
         \o pointer_event_calls_stopping_at_unknown(Tail(events))

\* The loop of pointer_frame: `continue` for an event of no flutter window.
RECURSIVE pointer_event_calls(_)
pointer_event_calls(events) ==
    IF events = <<>> THEN <<>>
    ELSE IF find_window_by_surface_id_mut(events[1].surface) = None
    THEN pointer_event_calls(Tail(events))
    ELSE <<Call("window.pointer_event", <<events[1].surface, events[1].kind>>)>>
         \o pointer_event_calls(Tail(events))

\* PointerHandler::pointer_frame
pointer_frame(events) ==
    /\ loop_pc = "dispatch"
    /\ handler' = "pointer_frame"
    /\ arg' = events
    /\ trace' = pointer_event_calls(events)
    /\ UNCHANGED <<msgVars, appVars, render_pc, debug_assertions, context,
                   current, current_on, surface_size, current_frame_size,
                   frame_size_access, gl_textures, gl_framebuffers, user_data,
                   stores, created, ret, lockVars>>

\* The events of the compositor for the toplevels and the surfaces.
SurfaceNext ==
    \/ run
    \/ loop_check
    \/ end_dispatch
    \/ \E ok \in BOOLEAN : startup_timer_fired(ok)
    \/ loop_callback(None)
    \/ \E e \in ConfigureEvents : configure(e[1], e[2])
    \/ \E s \in Surfaces, f \in ScaleFactors : scale_factor_changed(s, f)
    \/ \E s \in Surfaces, o \in OutputIds : surface_enter(s, o)
    \/ \E s \in Surfaces, o \in OutputIds : surface_leave(s, o)
    \/ \E events \in PointerFrames : pointer_frame(events)

SpecSurface == Init /\ [][SurfaceNext]_vars

(***************************************************************************)
(* The frame interval of a vsync reply: C33                                *)
(***************************************************************************)

\* The current-mode refresh rates of the outputs a surface is on.
CurrentRatesOf(data) ==
    IF data = None THEN {}
    ELSE {m.refresh_rate :
            m \in UNION {{Unwrap(info)[i] : i \in 1..Len(Unwrap(info))} :
                           info \in {Unwrap(data)[j] : j \in 1..Len(Unwrap(data))}
                                    \ {None}}
                   \cap [current : {TRUE}, refresh_rate : RefreshRates]}

\* Whether q is 10^12 / r for a rate r of whole Hz: q * r <= 10^12 < (q + 1) * r,
\* with both sides divided by 1000.
IsQuotientOf1e12(q, r) ==
    LET hz == r \div 1000
    IN /\ r % 1000 = 0
       /\ q * hz <= 1000000000
       /\ (q + 1) * hz > 1000000000

\* The frame interval the rates of a surface ask for.
IsFrameIntervalOf(interval, data) ==
    LET rates == CurrentRatesOf(data)
        r == CHOOSE x \in rates : \A y \in rates : y <= x
    IN IF rates = {} \/ r = 0 THEN interval = FRAME_INTERVAL_60_HZ_IN_NANOS
       ELSE IF r > 0 THEN IsQuotientOf1e12(interval, r)
       ELSE interval = 0

\* C33: a frame callback calls engine.on_vsync exactly once, with the interval
\* 10^12 / r ns for the largest current-mode refresh rate r (mHz, as u64) of
\* the outputs the surface is on, and with the 60 Hz interval when r is 0 or
\* no output has a current mode, where the function returns None: nothing is
\* divided by zero.
C33_FrameIntervalFromLargestRefreshRate ==
    handler = "frame" =>
        /\ Len(trace) = 1
        /\ trace[1].call = "engine.on_vsync"
        /\ trace[1].args[1] \in Batons
        /\ IsFrameIntervalOf(trace[1].args[2], arg)
        /\ (get_surface_frame_interval_in_nanos(arg) = None)
             <=> \/ CurrentRatesOf(arg) = {}
                 \/ /\ 0 \in CurrentRatesOf(arg)
                    /\ \A x \in CurrentRatesOf(arg) : x <= 0

\* A frame callback for a surface on a 60 Hz and a 144 Hz output.
C33_Witness ==
    /\ handler = "frame"
    /\ Len(arg) = 1 /\ Len(arg[1]) = 2
    /\ CurrentRatesOf(arg) = {60000, 144000}
    /\ trace = <<Call("engine.on_vsync", <<1, 6944444>>)>>

(***************************************************************************)
(* on_frame_presented after the swap (SpecCompositor): C34                 *)
(***************************************************************************)
\* The swaps of t that succeeded.
SuccessfulSwaps(t) ==
    SelectSeq(t, LAMBDA c : c.call = "Context::present" /\ c.args = <<1>>)

\* C34: a present, present_view or clear calls the window's
\* on_frame_presented once for a swap that succeeded, directly after that
\* swap and as its last call, and never when the window rejected the frame
\* or make_current or the swap failed.
C34_FramePresentedOnceAfterSuccessfulSwap ==
    handler \in {"present", "present_view"} =>
        LET presented == SelectCalls(trace, "window.on_frame_presented")
        IN /\ Len(presented) = Len(SuccessfulSwaps(trace))
           /\ Len(presented) <= 1
           /\ Len(presented) = 1 =>
                 /\ Len(trace) >= 2
                 /\ Last(trace).call = "window.on_frame_presented"
                 /\ trace[Len(trace) - 1] = Call("Context::present", <<1>>)
                 /\ ret \in {"true", "Ok"}
           /\ FailedCalls(trace) # <<>> => presented = <<>>
           /\ ret \in {"true", "Ok"} => Len(presented) = 1

\* An empty frame was cleared and swapped: on_frame_presented is the last call.
C34_Witness ==
    /\ handler = "present_view"
    /\ arg = <<>>
    /\ ret = "Ok"
    /\ Len(SelectCalls(trace, "gl.Clear")) = 1
    /\ trace[Len(trace) - 1] = Call("Context::present", <<1>>)
    /\ Last(trace) = Call("window.on_frame_presented", <<>>)

(***************************************************************************)
(* Events for no flutter window (SpecSurface): C35                         *)
(***************************************************************************)
\* The surfaces of the flutter windows.
KnownSurfaces == {wl_surface_id(w) : w \in windows}

\* The window.pointer_event calls for the events of known windows, in the
\* order of the events.
RECURSIVE DeliveredOf(_)
DeliveredOf(events) ==
    IF events = <<>> THEN <<>>
    ELSE (IF events[1].surface \in KnownSurfaces
          THEN <<Call("window.pointer_event", <<events[1].surface, events[1].kind>>)>>
          ELSE <<>>)
         \o DeliveredOf(Tail(events))

\* The handler that ran last was given an event for no flutter window.
ForUnknownWindow ==
    \/ /\ handler = "configure"
       /\ Last(received).win \notin windows
    \/ /\ handler \in {"scale_factor_changed", "surface_enter", "surface_leave"}
       /\ arg[1] \notin KnownSurfaces

\* C35: a configure, scale_factor_changed, surface_enter or surface_leave for
\* a toplevel or surface of no flutter window calls no window method, a
\* pointer frame delivers exactly its events for known windows, in order, and
\* none of these changes the windows, is_engine_running or pending_configure:
\* a configure for an unknown toplevel is never buffered.
C35_EventsForUnknownWindowsIgnored ==
    /\ [](ForUnknownWindow => trace = <<>>)
    /\ [](handler = "pointer_frame" => trace = DeliveredOf(arg))
    /\ [][(\/ handler' \in {"scale_factor_changed", "surface_enter",
                            "surface_leave", "pointer_frame"}
           \/ /\ handler' = "configure"
              /\ received' # received
              /\ Last(received').win \notin windows)
          => UNCHANGED <<windows, is_engine_running, pending_configure,
                         window_calls>>]_vars

\* A pointer frame whose second event was for no flutter window: the first and
\* the third were delivered, before the engine runs and with nothing buffered.
C35_Witness ==
    /\ handler = "pointer_frame"
    /\ Len(arg) = 3
    /\ arg[2].surface \notin KnownSurfaces
    /\ Len(trace) = 2
    /\ trace[1].args[2] = "Press" /\ trace[2].args[2] = "Motion"
    /\ ~is_engine_running
    /\ pending_configure = None
    /\ received # <<>>
    /\ \A i \in 1..Len(received) : received[i].win \notin windows

(***************************************************************************)
(* The order of the startup step (SpecApp): C36                            *)
(***************************************************************************)
\* The positions of the calls named name in t.
CallPositions(t, name) == {i \in 1..Len(t) : t[i].call = name}

\* The configure events buffered before the engine ran: those received for a
\* flutter window while it was not running.
BufferedReceived == SelectSeq(received, LAMBDA e : e.win \in windows /\ ~e.running)

\* C36: the startup step sets is_engine_running, then sends the display
\* update to the engine, then forwards the buffered configure, if any: the
\* display update is sent (it is not while the flag is unset), every
\* window.configure of the step comes after it, and the one forwarded is the
\* last one buffered, handed to the implicit window it was received for.
C36_StartupStepOrder ==
    (handler = "startup_timer" /\ engine_run_result = "ok") =>
        LET notified == CallPositions(trace, "engine.notify_display_update")
            forwarded == CallPositions(trace, "window.configure")
        IN /\ is_engine_running
           /\ trace[1] = Call("engine.run", <<1>>)
           /\ notified = {2}
           /\ \A i \in forwarded : \A j \in notified : j < i
           /\ forwarded = (IF BufferedReceived = <<>> THEN {} ELSE {3})
           /\ Len(trace) = 2 + Cardinality(forwarded)
           /\ \A i \in forwarded :
                 /\ trace[i] = WindowCall(AsWindowCall(Last(BufferedReceived)))
                 /\ trace[i].args[1] = ImplicitToplevel
                 /\ Some(trace[i].args[1]) = get_implicit_window_mut
                 /\ Last(BufferedReceived).win = trace[i].args[1]

\* The startup step forwarded a buffered configure after the display update
\* of a known output.
C36_Witness ==
    /\ handler = "startup_timer"
    /\ engine_run_result = "ok"
    /\ Len(trace) = 3
    /\ trace[2].call = "engine.notify_display_update"
    /\ trace[2].args # <<>>
    /\ trace[3].call = "window.configure"
    /\ Len(BufferedReceived) = 2

(***************************************************************************)
(* Platform tasks only once the engine runs (SpecApp): C37                 *)
(***************************************************************************)
\* C37: engine.execute_platform_tasks is never called before engine.run() has
\* returned: the immediate timer has fired and run the engine, once and with
\* success, when the first dispatch ends, and the callback that executes the
\* platform tasks only runs after a dispatch has ended.
C37_PlatformTasksOnlyAfterEngineRun ==
    /\ [](loop_pc = "callback" =>
            /\ startup_timer = "dropped"
            /\ engine_run_calls = 1
            /\ engine_run_result = "ok"
            /\ is_engine_running)
    /\ [](SelectCalls(trace, "engine.execute_platform_tasks") # <<>> =>
            /\ engine_run_calls = 1
            /\ engine_run_result = "ok")
    /\ [][(\E t \in {None} \cup {Some(d) : d \in Deadlines} : loop_callback(t))
          => /\ loop_pc = "callback"
             /\ engine_run_result = "ok"
             /\ engine_run_calls = 1]_vars
    /\ [][(loop_pc = "dispatch" /\ loop_pc' = "callback")
          => startup_timer = "dropped"]_vars

\* The callback after the first dispatch: the platform tasks are executed and
\* the engine has run.
C37_Witness ==
    /\ handler = "loop_callback"
    /\ Len(trace) = 1
    /\ trace[1].call = "engine.execute_platform_tasks"
    /\ engine_run_calls = 1
    /\ engine_run_result = "ok"
    /\ timers = {}
    /\ received = <<>>

(***************************************************************************)
(* A Context whose handle was lost (SpecContext): C38                      *)
(***************************************************************************)
\* C38: a make_not_current whose native release fails returns false and leaves
\* the handle None, and from a Context without handle every make_current,
\* make_not_current and present returns false without a native call, every
\* resize changes nothing, and the handle stays None.
C38_HandleLostForGood ==
    /\ [][(SelectCalls(trace', "native.make_not_current") # <<>>
           /\ Last(SelectCalls(trace', "native.make_not_current")).args = <<0>>)
          => /\ context' = None
             /\ Last(trace') = Call("Context::make_not_current", <<0>>)
             /\ handler' = "clear_current" => ret' = "false"]_vars
    /\ [][context = None
          => /\ context' = None
             /\ NativeCalls(trace') = <<>>
             /\ handler' \in {"make_current", "clear_current", "present"}
                   => ret' = "false"
             /\ handler' = "make_current"
                   => trace' = <<Call("Context::make_current", <<0>>)>>
             /\ handler' = "clear_current"
                   => trace' = <<Call("Context::make_not_current", <<0>>)>>
             /\ (handler' = "present" /\ Last(trace').call # "window.on_frame_generated")
                   => Last(trace') = Call("Context::present", <<0>>)
             /\ handler' = "resize"
                   => /\ trace' = <<>>
                      /\ surface_size' = surface_size]_vars

\* A present on a Context whose handle was lost by a failed release: the
\* window accepted the frame, no buffer was swapped, present returned false.
C38_Witness ==
    /\ context = None
    /\ render_pc = "ready"
    /\ handler = "present"
    /\ ret = "false"
    /\ Len(trace) = 2
    /\ trace[1].call = "window.on_frame_generated"
    /\ Last(trace[1].args) = 1
    /\ trace[2] = Call("Context::present", <<0>>)
    /\ surface_size = <<0, 0>>

====
